---- MODULE Spec2Model ----
(***************************************************************************)
(* Model of the room/session state coordinator of src/server.js           *)
(* (Meldeliste): one WebSocket server process, single-threaded, that      *)
(* handles one inbound message at a time.  Every handler of the           *)
(* ws.on('message') dispatch is a function from the server state to the   *)
(* server state (xxxH); an action applies one handler to the current      *)
(* state.                                                                  *)
(***************************************************************************)
EXTENDS Integers, Sequences, FiniteSets, TLC

(***************************************************************************)
(* Bounds of the model.                                                    *)
(***************************************************************************)
MaxCount == 1
MaxLog == 1
MaxIds == 2
MaxElapsedSec == 5
MaxSel == 2
MaxThoughts == 3
MaxRooms == 1
MaxSignals == 2
MaxCalls == 2
MaxUploads == 1
MaxUsers == 1

(***************************************************************************)
(* Identifiers.  NoRoom / NoUser stand for null / undefined / '' (all     *)
(* falsy in JavaScript).                                                   *)
(***************************************************************************)
NoRoom == ""
NoUser == ""
\* ws.role = null
NoRole == ""
RoomIds == {"A", "B", "C"}
UnknownRoom == "Z"
Users == {"t1", "a1", "s1", "s2", "s3"}
GhostUser == "ghost"
RoomKeys == RoomIds \cup {UnknownRoom}
UserKeys == Users \cup {GhostUser}
\* the sockets: six clients are connected at the start; w7 is the socket of
\* a connection that has not been made yet
SpareSocks == {"w7"}
Socks == {"w1", "w2", "w3", "w4", "w5", "w6"} \cup SpareSocks
RatingKeys == {"--", "-", "0", "+", "++"}
Subjects == {"Math", "default"}
Classes == {"7a", "7b"}
HwKeys == Classes \X Subjects
DayMs == 86400000
T0 == 86395000
Days == (T0 \div DayMs) .. ((T0 + MaxElapsedSec * 1000) \div DayMs)

VARIABLES
  users,         \* userId -> [role, className, firstName, lastName,
                 \*            salutation, password, name, teachings]
  rooms,         \* roomId -> [className, subject, active, allowSelfCall]
  stats,         \* userId -> subject -> [signals, calls, ratings, toiletSeconds]
  daily,         \* userId -> subject -> day -> [signals, calls, toiletSeconds]
  logs,          \* roomId -> sequence of log entries
  userSockets,   \* userId -> set of sockets
  sockUser,      \* ws.userId
  sockRole,      \* ws.role
  sockRoom,      \* ws.roomId
  sockOpen,      \* the socket is connected (readyState OPEN, in wss.clients)
  roomMembers,   \* roomId -> set of userIds
  readyMap,      \* roomId -> set of userIds
  roomCounters,  \* roomId -> userId -> [signals, calls, toiletSeconds]
  toiletMap,     \* roomId -> userId -> [status, start]
  importantMap,  \* roomId -> set of userIds
  pollsMap,      \* roomId -> poll
  questionsMap,  \* roomId -> sequence of questions
  thoughtsMap,   \* roomId -> [active, entries]
  pollTemplates, \* userId -> sequence of poll templates
  homework,      \* <<className, subject>> -> [current, previous]
  classes,       \* the set of class names of the catalog
  subjects,      \* the set of subject names of the catalog
  uploadsMap,    \* roomId -> sequence of uploads
  nextId,        \* source of genId
  now            \* Date.now(), in milliseconds

vars == <<users, rooms, stats, daily, logs, userSockets, sockUser, sockRole,
          sockRoom, sockOpen, roomMembers, readyMap, roomCounters, toiletMap,
          importantMap, pollsMap, questionsMap, thoughtsMap, pollTemplates,
          homework, classes, subjects, uploadsMap, nextId, now>>

\* The server state as one record.  Its field sent collects what a handler
\* sends (ws.send): the output of handling one message, empty before it.
Cur ==
  [users |-> users, rooms |-> rooms, stats |-> stats, daily |-> daily,
   logs |-> logs, userSockets |-> userSockets, sockUser |-> sockUser,
   sockRole |-> sockRole, sockRoom |-> sockRoom, sockOpen |-> sockOpen,
   roomMembers |-> roomMembers, readyMap |-> readyMap,
   roomCounters |-> roomCounters, toiletMap |-> toiletMap,
   importantMap |-> importantMap, pollsMap |-> pollsMap,
   questionsMap |-> questionsMap, thoughtsMap |-> thoughtsMap,
   pollTemplates |-> pollTemplates, homework |-> homework,
   classes |-> classes, subjects |-> subjects, uploadsMap |-> uploadsMap,
   nextId |-> nextId, now |-> now, sent |-> {}]

(***************************************************************************)
(* JavaScript Map / Set helpers.  readyMap and thoughtsMap are kept as     *)
(* partial functions (withdraw asks readyMap.has, thoughtEnd and           *)
(* thoughtSubmit ask for the entry).  Every other map is read in the source *)
(* only through `get(k) || empty`, `if (set)` or an ensure-then-get, so a  *)
(* missing entry and an empty entry behave alike: those maps are kept as   *)
(* total functions over RoomKeys / UserKeys that start at the empty value. *)
(***************************************************************************)
Max(a, b) == IF a >= b THEN a ELSE b

\* map.get(k) || d
MapGet(m, k, d) == IF k \in DOMAIN m THEN m[k] ELSE d

\* map.set(k, v)
MapSet(m, k, v) == [x \in (DOMAIN m) \cup {k} |-> IF x = k THEN v ELSE m[x]]

\* if (!map.has(k)) map.set(k, d)
Ensure(m, k, d) == IF k \in DOMAIN m THEN m ELSE MapSet(m, k, d)

\* const set = map.get(k); if (set) set.delete(x)
DeleteIn(m, k, x) == IF k \in DOMAIN m THEN [m EXCEPT ![k] = @ \ {x}] ELSE m

\* if (!map.has(k)) map.set(k, new Set()); map.get(k).add(x)
AddIn(m, k, x) == MapSet(m, k, MapGet(m, k, {}) \cup {x})

ZeroCounter == [signals |-> 0, calls |-> 0, toiletSeconds |-> 0]
ZeroStats ==
  [signals |-> 0, calls |-> 0, ratings |-> [k \in RatingKeys |-> 0],
   toiletSeconds |-> 0]
NoToilet == [status |-> "none", start |-> 0]
NoPoll ==
  [id |-> 0, question |-> "", options |-> <<>>, multiple |-> FALSE,
   votes |-> <<>>]

\* { active: false, entries: [] }
NoThoughts == [active |-> FALSE, entries |-> <<>>]

\* normalizeHomework(undefined): { current: null, previous: null }; a
\* homework { text, ts } is null when its text is ""
NoText == [text |-> "", ts |-> 0]
NoHomework == [current |-> NoText, previous |-> NoText]

\* room.subject || 'default'
SubjectOf(room) == IF room.subject = "" THEN "default" ELSE room.subject

\* new Date().toISOString().slice(0, 10): the UTC calendar day of the clock
Today(s) == s.now \div DayMs

\* genId: a fresh identifier
GenId(s) == s.nextId

getToiletState(s, roomId, userId) ==
  MapGet(MapGet(s.toiletMap, roomId, <<>>), userId, NoToilet)

isImportant(s, roomId, userId) == userId \in MapGet(s.importantMap, roomId, {})

\* counter.get(userId) || { signals: 0, calls: 0, toiletSeconds: 0 }
RoomCounter(s, roomId, userId) ==
  MapGet(MapGet(s.roomCounters, roomId, <<>>), userId, ZeroCounter)

SetRoomCounter(s, roomId, userId, c) ==
  [s EXCEPT !.roomCounters =
     MapSet(@, roomId, MapSet(MapGet(@, roomId, <<>>), userId, c))]

\* a resetReady that forgets to clear the flag
resetReadyKeeps(s, roomId, userId) == s

resetReady(s, roomId, userId) ==
  [s EXCEPT !.readyMap = DeleteIn(@, roomId, userId)]

(***************************************************************************)
(* Outbound messages.  A delivery is (socket, message type, roomId).       *)
(***************************************************************************)
Msg(to, type, roomId) ==
  [to |-> to, type |-> type, roomId |-> roomId, entries |-> <<>>,
   results |-> <<>>]

\* the open clients whose current room is roomId
Clients(s, roomId) == {w \in Socks : s.sockOpen[w] /\ s.sockRoom[w] = roomId}

Send(s, msgs) == [s EXCEPT !.sent = @ \cup msgs]

broadcastRoom(s, roomId, type) ==
  Send(s, {Msg(w, type, roomId) : w \in Clients(s, roomId)})

sendToUser(s, userId, type, roomId) ==
  Send(s, {Msg(w, type, roomId) :
             w \in {x \in MapGet(s.userSockets, userId, {}) : s.sockOpen[x]}})

updatePresence(s, roomId) == broadcastRoom(s, roomId, "presence")

\* a log view that filters nothing
LogViewAll(s, roomId, w) == MapGet(s.logs, roomId, <<>>)

\* the entries sendLogUpdates shows to the client w: log.filter(...).map(...)
LogView(s, roomId, w) ==
  LET isTeacher == s.sockRole[w] = "teacher"
      Shown(e) == /\ ~(~isTeacher /\ e.userId # s.sockUser[w])
                  /\ ~(e.action = "signal" \/ e.action = "withdraw")
                  /\ ~(~isTeacher /\ e.action = "rating")
      filtered == SelectSeq(MapGet(s.logs, roomId, <<>>), Shown)
  IN [i \in DOMAIN filtered |->
        [filtered[i] EXCEPT !.rating = IF isTeacher THEN @ ELSE ""]]

sendLogUpdates(s, roomId) ==
  Send(s, {[Msg(w, IF s.sockRole[w] = "teacher" THEN "log" ELSE "myLog", roomId)
              EXCEPT !.entries = LogView(s, roomId, w)] :
             w \in Clients(s, roomId)})

sendStats(s, roomId) ==
  IF roomId \notin DOMAIN s.rooms THEN s
  ELSE LET members == MapGet(s.roomMembers, roomId, {})
           shown == {u \in members : u \in DOMAIN s.users
                                      /\ s.users[u].role \notin {"teacher", "admin"}}
           s1 == Send(s, {Msg(w, "stats", roomId) :
                            w \in {x \in Clients(s, roomId) : s.sockRole[x] = "teacher"}})
       IN Send(s1, {Msg(w, "myStats", roomId) :
                      w \in {x \in Socks : /\ s.sockOpen[x]
                                           /\ \E u \in shown :
                                                x \in MapGet(s.userSockets, u, {})}})

sendRoster(s, roomId) ==
  IF roomId \notin DOMAIN s.rooms THEN s
  ELSE IF s.rooms[roomId].className = "" THEN s
  ELSE broadcastRoom(s, roomId, "roster")

sendRoomSettings(s, roomId) ==
  IF roomId \notin DOMAIN s.rooms THEN s
  ELSE broadcastRoom(s, roomId, "roomSettings")

broadcastQuestions(s, roomId) ==
  Send(s, {Msg(w, "questionList", roomId) :
             w \in {x \in Clients(s, roomId) : s.sockRole[x] \in {"teacher", "admin"}}})

broadcastPoll(s, roomId) ==
  IF MapGet(s.pollsMap, roomId, NoPoll) = NoPoll THEN s
  ELSE broadcastRoom(s, roomId, "poll")

(***************************************************************************)
(* Class check shared by join, ready, toilet and selfCall.                 *)
(***************************************************************************)
ClassMismatch(user, room) ==
  /\ room.className # ""
  /\ user.className # ""
  /\ user.className # room.className

(***************************************************************************)
(* join                                                                    *)
(***************************************************************************)
\* a join that always drops the membership of the previous room
KeepMemberOnJoinNever(prevToilet) == FALSE

\* the previous room keeps the member (toilet pending or allowed there)
KeepMemberOnJoin(prevToilet) ==
  ~(prevToilet = NoToilet \/ prevToilet.status = "back")

JoinRejected(s, w, roomId) ==
  \/ roomId \notin DOMAIN s.rooms
  \/ s.rooms[roomId].active = FALSE
  \/ /\ s.users[s.sockUser[w]].role = "student"
     /\ ClassMismatch(s.users[s.sockUser[w]], s.rooms[roomId])

JoinLeavePrev(s, w, roomId) ==
  LET prev == s.sockRoom[w]
      u == s.sockUser[w]
  IN IF prev # NoRoom /\ prev # roomId
     THEN LET s1 == IF KeepMemberOnJoin(getToiletState(s, prev, u)) THEN s
                    ELSE [s EXCEPT !.roomMembers = DeleteIn(@, prev, u)]
              s2 == [s1 EXCEPT !.importantMap = DeleteIn(@, prev, u)]
              s3 == resetReady(s2, prev, u)
          IN updatePresence(s3, prev)
     ELSE s

JoinH(s, w, roomId) ==
  IF JoinRejected(s, w, roomId) THEN s
  ELSE LET u == s.sockUser[w]
           s1 == JoinLeavePrev(s, w, roomId)
           s2 == [s1 EXCEPT !.sockRoom[w] = roomId,
                            !.roomMembers = AddIn(@, roomId, u),
                            !.readyMap = Ensure(@, roomId, {}),
                            !.importantMap = Ensure(@, roomId, {}),
                            !.pollsMap = Ensure(@, roomId, NoPoll),
                            !.thoughtsMap = Ensure(@, roomId, NoThoughts)]
           s3 == sendRoomSettings(sendRoster(sendStats(sendLogUpdates(
                   updatePresence(s2, roomId), roomId), roomId), roomId), roomId)
           t == getToiletState(s3, roomId, u)
           s4 == IF t # NoToilet /\ t.status # "back"
                 THEN broadcastRoom(s3, roomId, "toilet") ELSE s3
           s5 == IF isImportant(s4, roomId, u)
                 THEN broadcastRoom(s4, roomId, "important") ELSE s4
       IN IF s.sockRole[w] \in {"teacher", "admin"}
          THEN broadcastPoll(broadcastQuestions(s5, roomId), roomId)
          ELSE s5

(***************************************************************************)
(* leave                                                                   *)
(***************************************************************************)
LeaveH(s, w) ==
  LET roomId == s.sockRoom[w]
      u == s.sockUser[w]
  IN IF roomId = NoRoom THEN s
     ELSE LET s1 == [s EXCEPT !.roomMembers = DeleteIn(@, roomId, u)]
              s2 == resetReady(s1, roomId, u)
              s3 == [s2 EXCEPT !.importantMap = DeleteIn(@, roomId, u),
                               !.sockRoom[w] = NoRoom]
          IN sendRoster(updatePresence(s3, roomId), roomId)

(***************************************************************************)
(* ws.on('close')                                                          *)
(***************************************************************************)
detachSocket(s, userId, w) ==
  [s EXCEPT !.userSockets[userId] = @ \ {w}]

KeepMemberOnClose(tState) == tState # NoToilet /\ tState.status # "back"

CloseH(s, w) ==
  LET u == s.sockUser[w]
      roomId == s.sockRoom[w]
      s0 == [s EXCEPT !.sockOpen[w] = FALSE, !.sockRoom[w] = NoRoom]
  IN IF u = NoUser THEN s0
     ELSE LET s1 == detachSocket(s0, u, w)
          IN IF roomId = NoRoom THEN s1
             ELSE LET s2 == IF KeepMemberOnClose(getToiletState(s1, roomId, u))
                            THEN s1
                            ELSE resetReady(
                                   [s1 EXCEPT !.roomMembers = DeleteIn(@, roomId, u)],
                                   roomId, u)
                  IN updatePresence(s2, roomId)

(***************************************************************************)
(* Statistics: ensureStats / ensureDaily create a zero record on first     *)
(* access, so a missing record and a zero record read the same; stats and  *)
(* daily are kept as total functions that start at zero.                   *)
(***************************************************************************)
\* Math.max(0, x + 1)
Inc(x) == Max(0, x + 1)

\* a decrement that is not clamped at zero
DecUnclamped(x) == x - 1

\* a decrement that is forgotten
DecForgotten(x) == x

\* Math.max(0, x - 1)
Dec(x) == Max(0, x - 1)

\* Math.max(0, x + d)
Plus(x, d) == Max(0, x + d)

(***************************************************************************)
(* toggleSelfCall                                                          *)
(***************************************************************************)
ToggleSelfCallH(s, w, mRoom, allow) ==
  LET roomId == IF mRoom # NoRoom THEN mRoom ELSE s.sockRoom[w]
  IN IF s.sockRole[w] \notin {"teacher", "admin"} THEN s
     ELSE IF roomId \notin DOMAIN s.rooms THEN s
     ELSE LET s1 == [s EXCEPT !.rooms[roomId].allowSelfCall = allow]
              s2 == Send(s1, {Msg(x, "roomList", NoRoom) : x \in {y \in Socks : s.sockOpen[y]}})
          IN sendRoomSettings(s2, roomId)

(***************************************************************************)
(* withdraw                                                                *)
(***************************************************************************)
WithdrawStats(s, u, roomId) ==
  IF roomId \notin DOMAIN s.rooms THEN s
  ELSE LET subject == SubjectOf(s.rooms[roomId])
       IN [s EXCEPT !.stats[u][subject].signals = Dec(@),
                    !.daily[u][subject][Today(s)].signals = Dec(@)]

WithdrawCounter(s, u, roomId) ==
  IF roomId \notin DOMAIN s.roomCounters THEN s
  ELSE LET current == RoomCounter(s, roomId, u)
       IN SetRoomCounter(s, roomId, u,
            [current EXCEPT !.signals = Max(0, current.signals - 1)])

WithdrawH(s, w, mRoom) ==
  LET roomId == IF mRoom # NoRoom THEN mRoom ELSE s.sockRoom[w]
      u == s.sockUser[w]
  IN IF roomId = NoRoom THEN s
     ELSE IF roomId \notin DOMAIN s.readyMap THEN s
     ELSE LET s1 == [s EXCEPT !.readyMap[roomId] = @ \ {u}]
              s2 == WithdrawStats(s1, u, roomId)
              s3 == WithdrawCounter(s2, u, roomId)
              s4 == broadcastRoom(s3, roomId, "reset")
              s5 == [s4 EXCEPT !.importantMap = DeleteIn(@, roomId, u)]
          IN sendStats(updatePresence(s5, roomId), roomId)

(***************************************************************************)
(* ready                                                                   *)
(***************************************************************************)
ReadyRejected(s, w, roomId) ==
  \/ roomId \notin DOMAIN s.rooms
  \/ s.users[s.sockUser[w]].role = "teacher"
  \/ /\ s.users[s.sockUser[w]].role = "student"
     /\ ClassMismatch(s.users[s.sockUser[w]], s.rooms[roomId])

\* a session counter that counts a raised hand once
ReadyCounterOnce(s, u, roomId) ==
  LET current == RoomCounter(s, roomId, u)
  IN SetRoomCounter(s, roomId, u, [current EXCEPT !.signals = Max(1, current.signals)])

ReadyCounter(s, u, roomId) ==
  LET current == RoomCounter(s, roomId, u)
  IN SetRoomCounter(s, roomId, u, [current EXCEPT !.signals = current.signals + 1])

ReadyStats(s, u, roomId) ==
  LET subject == SubjectOf(s.rooms[roomId])
  IN [s EXCEPT !.stats[u][subject].signals = Inc(@),
               !.daily[u][subject][Today(s)].signals = Inc(@)]

ReadyH(s, w, mRoom) ==
  LET roomId == IF mRoom # NoRoom THEN mRoom ELSE s.sockRoom[w]
      u == s.sockUser[w]
  IN IF ReadyRejected(s, w, roomId) THEN s
     ELSE LET s1 == [s EXCEPT !.sockRoom[w] = roomId,
                              !.roomMembers = AddIn(@, roomId, u),
                              !.readyMap = AddIn(@, roomId, u)]
              s2 == ReadyStats(ReadyCounter(s1, u, roomId), u, roomId)
              s3 == broadcastRoom(s2, roomId, "ready")
          IN sendStats(updatePresence(s3, roomId), roomId)

(***************************************************************************)
(* important, importantClear, importantWithdraw                            *)
(***************************************************************************)
ImportantH(s, w, mRoom) ==
  LET roomId == IF mRoom # NoRoom THEN mRoom ELSE s.sockRoom[w]
      u == s.sockUser[w]
  IN IF roomId \notin DOMAIN s.rooms THEN s
     ELSE IF s.users[u].role \in {"teacher", "admin"} THEN s
     ELSE LET s1 == [s EXCEPT !.sockRoom[w] = roomId,
                              !.roomMembers = AddIn(@, roomId, u),
                              !.importantMap = AddIn(@, roomId, u)]
          IN updatePresence(broadcastRoom(s1, roomId, "important"), roomId)

ImportantClearH(s, w, mRoom, targetUserId) ==
  LET roomId == IF mRoom # NoRoom THEN mRoom ELSE s.sockRoom[w]
  IN IF s.sockRole[w] \notin {"teacher", "admin"} THEN s
     ELSE IF roomId = NoRoom \/ targetUserId = NoUser THEN s
     ELSE LET s1 == [s EXCEPT !.importantMap = DeleteIn(@, roomId, targetUserId)]
          IN updatePresence(broadcastRoom(s1, roomId, "important"), roomId)

ImportantWithdrawH(s, w, mRoom) ==
  LET roomId == IF mRoom # NoRoom THEN mRoom ELSE s.sockRoom[w]
  IN IF roomId = NoRoom THEN s
     ELSE LET s1 == [s EXCEPT !.importantMap = DeleteIn(@, roomId, s.sockUser[w])]
          IN updatePresence(broadcastRoom(s1, roomId, "important"), roomId)

(***************************************************************************)
(* toilet, toiletAllow, toiletBack                                         *)
(***************************************************************************)
SetToilet(s, roomId, userId, entry) ==
  [s EXCEPT !.toiletMap =
     MapSet(@, roomId, MapSet(MapGet(@, roomId, <<>>), userId, entry))]

ToiletRejected(s, w, roomId) ==
  \/ roomId \notin DOMAIN s.rooms
  \/ s.users[s.sockUser[w]].role = "teacher"
  \/ /\ s.users[s.sockUser[w]].role = "student"
     /\ ClassMismatch(s.users[s.sockUser[w]], s.rooms[roomId])

ToiletH(s, w, mRoom) ==
  LET roomId == IF mRoom # NoRoom THEN mRoom ELSE s.sockRoom[w]
      u == s.sockUser[w]
  IN IF ToiletRejected(s, w, roomId) THEN s
     ELSE LET s1 == [s EXCEPT !.sockRoom[w] = roomId,
                              !.roomMembers = AddIn(@, roomId, u)]
              s2 == SetToilet(s1, roomId, u, [status |-> "pending", start |-> 0])
          IN updatePresence(broadcastRoom(s2, roomId, "toilet"), roomId)

\* a toiletAllow that anybody may send
ToiletAllowAnyoneH(s, w, mRoom, targetUserId) ==
  LET roomId == IF mRoom # NoRoom THEN mRoom ELSE s.sockRoom[w]
  IN IF roomId = NoRoom \/ targetUserId = NoUser THEN s
     ELSE LET s1 == SetToilet(s, roomId, targetUserId,
                              [status |-> "allowed", start |-> s.now])
          IN sendToUser(broadcastRoom(s1, roomId, "toilet"),
                        targetUserId, "toiletAllowed", roomId)

ToiletAllowH(s, w, mRoom, targetUserId) ==
  LET roomId == IF mRoom # NoRoom THEN mRoom ELSE s.sockRoom[w]
  IN IF s.sockRole[w] \notin {"teacher", "admin"} THEN s
     ELSE IF roomId = NoRoom \/ targetUserId = NoUser THEN s
     ELSE LET s1 == SetToilet(s, roomId, targetUserId,
                              [status |-> "allowed", start |-> s.now])
          IN sendToUser(broadcastRoom(s1, roomId, "toilet"),
                        targetUserId, "toiletAllowed", roomId)

\* a duration that is rounded down
DurationSecFloor(nowMs, start) == (Max(0, nowMs - start) \div 10000) * 10

\* Math.max(0, Math.round(Math.max(0, now - start) / 10000) * 10)
DurationSec(nowMs, start) ==
  LET ms == Max(0, nowMs - start)
  IN Max(0, ((2 * ms + 10000) \div 20000) * 10)

ToiletBackH(s, w, mRoom) ==
  LET roomId == IF mRoom # NoRoom THEN mRoom ELSE s.sockRoom[w]
      u == s.sockUser[w]
  IN IF roomId \notin DOMAIN s.rooms THEN s
     ELSE LET state == getToiletState(s, roomId, u)
              durationSec == IF state # NoToilet /\ state.start # 0
                             THEN DurationSec(s.now, state.start) ELSE 0
              s1 == SetToilet(s, roomId, u, NoToilet)
              subject == SubjectOf(s.rooms[roomId])
              s2 == [s1 EXCEPT !.stats[u][subject].toiletSeconds = Plus(@, durationSec),
                               !.daily[u][subject][Today(s)].toiletSeconds =
                                  Plus(@, durationSec)]
              current == RoomCounter(s2, roomId, u)
              s3 == SetRoomCounter(s2, roomId, u,
                      [current EXCEPT !.toiletSeconds = Plus(@, durationSec)])
              s4 == broadcastRoom(s3, roomId, "toilet")
          IN sendStats(updatePresence(s4, roomId), roomId)

(***************************************************************************)
(* The audit log                                                           *)
(***************************************************************************)
LogEntry(ts, userId, action, rating, selfCall) ==
  [id |-> 0, ts |-> ts, userId |-> userId, action |-> action,
   rating |-> rating, selfCall |-> selfCall]

appendLog(s, roomId, entry) ==
  LET e == [entry EXCEPT !.id = GenId(s)]
      s1 == [s EXCEPT !.nextId = @ + 1,
                      !.logs = MapSet(@, roomId, Append(MapGet(@, roomId, <<>>), e))]
  IN sendLogUpdates(s1, roomId)

(***************************************************************************)
(* selfCall, ack, rate                                                     *)
(***************************************************************************)
\* the call counters of userId: cumulative, today's and the room's
\* a call that the cumulative and daily statistics miss
CallStatsMissed(s, userId, roomId) == s

CallStats(s, userId, roomId) ==
  LET subject == SubjectOf(s.rooms[roomId])
  IN [s EXCEPT !.stats[userId][subject].calls = Inc(@),
               !.daily[userId][subject][Today(s)].calls = Inc(@)]

\* a call that the room's session counter misses
CallCounterMissed(s, userId, roomId) == s

CallCounter(s, userId, roomId) ==
  LET current == RoomCounter(s, roomId, userId)
  IN SetRoomCounter(s, roomId, userId, [current EXCEPT !.calls = Inc(@)])

SelfCallRejected(s, w, roomId) ==
  \/ roomId \notin DOMAIN s.rooms
  \/ ~s.rooms[roomId].allowSelfCall
  \/ s.users[s.sockUser[w]].role # "student"
  \/ ClassMismatch(s.users[s.sockUser[w]], s.rooms[roomId])

SelfCallH(s, w, mRoom) ==
  LET roomId == IF mRoom # NoRoom THEN mRoom ELSE s.sockRoom[w]
      u == s.sockUser[w]
  IN IF SelfCallRejected(s, w, roomId) THEN s
     ELSE LET s1 == [s EXCEPT !.sockRoom[w] = roomId,
                              !.roomMembers = AddIn(@, roomId, u)]
              s2 == CallStats(CallCounter(s1, u, roomId), u, roomId)
              s3 == [s2 EXCEPT !.readyMap = DeleteIn(@, roomId, u)]
              s4 == appendLog(s3, roomId, LogEntry(s.now, u, "called", "", TRUE))
              s5 == sendToUser(s4, u, "called", roomId)
              s6 == broadcastRoom(broadcastRoom(s5, roomId, "reset"),
                                  roomId, "selfCallNotice")
          IN sendStats(updatePresence(s6, roomId), roomId)

AckH(s, w, mRoom, targetUserId) ==
  LET roomId == IF mRoom # NoRoom THEN mRoom ELSE s.sockRoom[w]
  IN IF s.sockRole[w] # "teacher" THEN s
     ELSE IF roomId = NoRoom \/ targetUserId = NoUser THEN s
     ELSE IF roomId \notin DOMAIN s.rooms THEN s
     ELSE LET s1 == IF targetUserId \in DOMAIN s.users
                    THEN CallStats(s, targetUserId, roomId) ELSE s
              s2 == CallCounter(s1, targetUserId, roomId)
              s3 == [s2 EXCEPT !.readyMap = MapSet(@, roomId, {})]
              s4 == broadcastRoom(s3, roomId, "resetAll")
              s5 == sendToUser(s4, targetUserId, "called", roomId)
              s6 == appendLog(s5, roomId,
                              LogEntry(s.now, targetUserId, "called", "", FALSE))
          IN sendStats(updatePresence(s6, roomId), roomId)

RateH(s, w, mRoom, targetUserId, rating) ==
  LET roomId == IF mRoom # NoRoom THEN mRoom ELSE s.sockRoom[w]
  IN IF s.sockRole[w] # "teacher" THEN s
     ELSE IF roomId = NoRoom \/ targetUserId = NoUser \/ rating \notin RatingKeys THEN s
     ELSE IF roomId \notin DOMAIN s.rooms THEN s
     ELSE LET subject == SubjectOf(s.rooms[roomId])
              s1 == IF targetUserId \in DOMAIN s.users
                    THEN [s EXCEPT !.stats[targetUserId][subject].ratings[rating] = Inc(@)]
                    ELSE s
              s2 == appendLog(s1, roomId,
                              LogEntry(s.now, targetUserId, "rating", rating, FALSE))
          IN sendStats(s2, roomId)

(***************************************************************************)
(* logDelete                                                               *)
(***************************************************************************)
\* entries.findIndex((e) => e.id === entryId), 0 for -1
FindIndex(entries, entryId) ==
  LET hits == {i \in DOMAIN entries : entries[i].id = entryId}
  IN IF hits = {} THEN 0 ELSE CHOOSE i \in hits : \A j \in hits : i <= j

\* entries.splice(idx, 1)
Splice(entries, idx) ==
  [i \in 1 .. (Len(entries) - 1) |-> IF i < idx THEN entries[i] ELSE entries[i + 1]]

\* a deletion that leaves the call counters alone
LogDeleteCalledKeeps(s, removed, roomId) == s

LogDeleteCalled(s, removed, roomId) ==
  LET subject == SubjectOf(s.rooms[roomId])
      uid == removed.userId
      s1 == IF uid \in DOMAIN s.users
            THEN [s EXCEPT !.stats[uid][subject].calls = Dec(@),
                           !.daily[uid][subject][Today(s)].calls = Dec(@)]
            ELSE s
      current == RoomCounter(s1, roomId, uid)
  IN SetRoomCounter(s1, roomId, uid, [current EXCEPT !.calls = Dec(@)])

LogDeleteRating(s, removed, roomId) ==
  LET subject == SubjectOf(s.rooms[roomId])
      uid == removed.userId
  IN IF uid \in DOMAIN s.users
     THEN [s EXCEPT !.stats[uid][subject].ratings[removed.rating] = Dec(@)]
     ELSE s

LogDeleteH(s, w, mRoom, entryId) ==
  LET roomId == IF mRoom # NoRoom THEN mRoom ELSE s.sockRoom[w]
  IN IF s.sockRole[w] \notin {"teacher", "admin"} THEN s
     ELSE IF roomId = NoRoom \/ entryId = 0 THEN s
     ELSE IF roomId \notin DOMAIN s.rooms THEN s
     ELSE IF roomId \notin DOMAIN s.logs THEN s
     ELSE LET entries == s.logs[roomId]
              idx == FindIndex(entries, entryId)
          IN IF idx = 0 THEN s
             ELSE LET removed == entries[idx]
                      s1 == [s EXCEPT !.logs[roomId] = Splice(entries, idx)]
                      s2 == IF removed.userId # NoUser /\ removed.action = "called"
                            THEN LogDeleteCalled(s1, removed, roomId) ELSE s1
                      s3 == IF /\ removed.userId # NoUser
                               /\ removed.action = "rating"
                               /\ removed.rating # ""
                            THEN LogDeleteRating(s2, removed, roomId) ELSE s2
                  IN sendStats(sendLogUpdates(s3, roomId), roomId)

(***************************************************************************)
(* Polls                                                                   *)
(***************************************************************************)
\* String(t || '').trim() on the texts the model sends
Trim(t) ==
  CASE t = " " -> ""
    [] t = " Q " -> "Q"
    [] t = " x " -> "x"
    [] t = " No " -> "No"
    [] t = " New " -> "New"
    [] t = " 7c " -> "7c"
    [] OTHER -> t

\* `opt-${idx}` for idx = 0, 1, 2, ...
OptIds == <<"opt-0", "opt-1", "opt-2", "opt-3">>

\* options that keep their empty texts
CleanOptionsAll(options) == [i \in DOMAIN options |-> Trim(options[i])]

\* msg.options.map((t) => String(t || '').trim()).filter(Boolean)
CleanOptions(options) ==
  SelectSeq([i \in DOMAIN options |-> Trim(options[i])], LAMBDA t : t # "")

NewPoll(s, question, options, multiple) ==
  [id |-> GenId(s), question |-> question,
   options |-> [i \in DOMAIN options |->
                  [id |-> OptIds[i], text |-> options[i], count |-> 0]],
   multiple |-> multiple, votes |-> <<>>]

PollCreateH(s, w, mRoom, mQuestion, mOptions, multiple) ==
  LET roomId == IF mRoom # NoRoom THEN mRoom ELSE s.sockRoom[w]
      question == Trim(mQuestion)
      options == CleanOptions(mOptions)
  IN IF s.sockRole[w] \notin {"teacher", "admin"} THEN s
     ELSE IF roomId \notin DOMAIN s.rooms THEN s
     ELSE IF question = "" \/ Len(options) < 2 THEN s
     ELSE LET s1 == [s EXCEPT !.nextId = @ + 1,
                              !.pollsMap = MapSet(@, roomId,
                                             NewPoll(s, question, options, multiple))]
          IN broadcastPoll(s1, roomId)

\* a vote that keeps every selected option, whatever the poll
AllowedOptionsAll(multiple, selected) == selected

\* const allowed = poll.multiple ? selected : [selected[0]]
AllowedOptions(multiple, selected) ==
  IF multiple THEN selected ELSE <<selected[1]>>

\* how often vals names optId
Occurrences(vals, optId) == Cardinality({i \in DOMAIN vals : vals[i] = optId})

\* poll.votes.forEach((vals) => vals.forEach((optId) => ... opt.count += 1))
RECURSIVE TallyVotes(_, _, _)
TallyVotes(votes, voters, optId) ==
  IF voters = {} THEN 0
  ELSE LET u == CHOOSE x \in voters : TRUE
       IN Occurrences(votes[u], optId) + TallyVotes(votes, voters \ {u}, optId)

RecomputeCounts(poll) ==
  [poll EXCEPT !.options =
     [i \in DOMAIN poll.options |->
        [poll.options[i] EXCEPT
           !.count = TallyVotes(poll.votes, DOMAIN poll.votes, poll.options[i].id)]]]

PollVoteH(s, w, mRoom, selected) ==
  LET roomId == IF mRoom # NoRoom THEN mRoom ELSE s.sockRoom[w]
      poll == MapGet(s.pollsMap, roomId, NoPoll)
  IN IF poll = NoPoll THEN s
     ELSE IF Len(selected) = 0 THEN s
     ELSE LET voted == [poll EXCEPT !.votes =
                          MapSet(@, s.sockUser[w],
                                 AllowedOptions(poll.multiple, selected))]
              s1 == [s EXCEPT !.pollsMap = MapSet(@, roomId, RecomputeCounts(voted))]
          IN broadcastPoll(s1, roomId)

(***************************************************************************)
(* pollTemplateCreate, pollTemplateActivate                                *)
(***************************************************************************)
PollTemplateCreateH(s, w, mQuestion, mOptions, multiple) ==
  LET question == Trim(mQuestion)
      options == CleanOptions(mOptions)
      u == s.sockUser[w]
  IN IF s.sockRole[w] \notin {"teacher", "admin"} THEN s
     ELSE IF question = "" \/ Len(options) < 2 THEN s
     ELSE LET tmpl == [id |-> GenId(s), question |-> question,
                       options |-> options, multiple |-> multiple]
              s1 == [s EXCEPT !.nextId = @ + 1,
                              !.pollTemplates =
                                 MapSet(@, u, Append(MapGet(@, u, <<>>), tmpl))]
          IN Send(s1, {Msg(w, "pollTemplates", NoRoom)})

\* list.find((t) => t.id === tmplId), 0 for undefined
FindTemplate(list, tmplId) ==
  LET hits == {i \in DOMAIN list : list[i].id = tmplId}
  IN IF hits = {} THEN 0 ELSE CHOOSE i \in hits : \A j \in hits : i <= j

PollTemplateActivateH(s, w, mRoom, tmplId) ==
  LET roomId == IF mRoom # NoRoom THEN mRoom ELSE s.sockRoom[w]
      list == MapGet(s.pollTemplates, s.sockUser[w], <<>>)
      idx == FindTemplate(list, tmplId)
  IN IF s.sockRole[w] \notin {"teacher", "admin"} THEN s
     ELSE IF idx = 0 THEN s
     ELSE LET tmpl == list[idx]
              s1 == [s EXCEPT !.nextId = @ + 1,
                              !.pollsMap = MapSet(@, roomId,
                                             NewPoll(s, tmpl.question, tmpl.options,
                                                     tmpl.multiple))]
          IN broadcastPoll(s1, roomId)

(***************************************************************************)
(* questionSubmit                                                          *)
(***************************************************************************)
\* a question that goes to every client of the room
QuestionReceiversAll(s, roomId) == Clients(s, roomId)

\* the open teacher and admin clients whose current room is roomId
QuestionReceivers(s, roomId) ==
  {x \in Clients(s, roomId) : s.sockRole[x] \in {"teacher", "admin"}}

QuestionSubmitH(s, w, mRoom, mText) ==
  LET roomId == IF mRoom # NoRoom THEN mRoom ELSE s.sockRoom[w]
      text == Trim(mText)
  IN IF roomId \notin DOMAIN s.rooms THEN s
     ELSE IF text = "" THEN s
     ELSE LET entry == [id |-> GenId(s), text |-> text, ts |-> s.now]
              s1 == [s EXCEPT !.nextId = @ + 1,
                              !.questionsMap =
                                 MapSet(@, roomId,
                                        Append(MapGet(@, roomId, <<>>), entry))]
          IN Send(s1, {Msg(x, "question", roomId) :
                         x \in QuestionReceivers(s1, roomId)})

(***************************************************************************)
(* Homework, roomCreate, roomClose                                         *)
(***************************************************************************)
\* the open clients (wss.clients)
OpenClients(s) == {x \in Socks : s.sockOpen[x]}

broadcastHomework(s) ==
  Send(s, {Msg(x, "homework", NoRoom) : x \in OpenClients(s)})

\* wss.clients.forEach((client) => sendRoomList(client))
sendRoomLists(s) ==
  Send(s, {Msg(x, "roomList", NoRoom) : x \in OpenClients(s)})

\* String(msg.subject || '').trim() || 'default'
SubjectOrDefault(mSubject) ==
  IF Trim(mSubject) = "" THEN "default" ELSE Trim(mSubject)

HomeworkSetH(s, w, mClassName, mSubject, mText) ==
  LET className == Trim(mClassName)
      subject == SubjectOrDefault(mSubject)
      text == Trim(mText)
      key == <<className, subject>>
      entry == MapGet(s.homework, key, NoHomework)
  IN IF s.sockRole[w] \notin {"teacher", "admin"} THEN s
     ELSE IF className = "" \/ text = "" THEN s
     ELSE LET moved == IF entry.current # NoText
                       THEN [entry EXCEPT !.previous = entry.current]
                       ELSE entry
              set == [moved EXCEPT !.current = [text |-> text, ts |-> s.now]]
          IN broadcastHomework([s EXCEPT !.homework = MapSet(@, key, set)])

\* current becomes previous, current is emptied
HomeworkRollover(s, className, subject) ==
  LET key == <<className, subject>>
      hwEntry == MapGet(s.homework, key, NoHomework)
  IN IF hwEntry.current # NoText
     THEN broadcastHomework(
            [s EXCEPT !.homework =
               MapSet(@, key, [current |-> NoText, previous |-> hwEntry.current])])
     ELSE s

\* genId('room'): an id no room has
FreshRooms == <<"D", "E", "F", "G">>
NewRoomId(s) ==
  LET free == {i \in DOMAIN FreshRooms : FreshRooms[i] \notin DOMAIN s.rooms}
  IN FreshRooms[CHOOSE i \in free : \A j \in free : i <= j]

RoomCreateH(s, w, mSubject, mClassName) ==
  LET subject == SubjectOrDefault(mSubject)
      className == Trim(mClassName)
      id == NewRoomId(s)
      room == [className |-> className, subject |-> subject, active |-> TRUE,
               allowSelfCall |-> FALSE]
  IN IF s.sockRole[w] \notin {"teacher", "admin"} THEN s
     ELSE IF className = "" THEN s
     ELSE LET s1 == [s EXCEPT !.rooms = MapSet(@, id, room)]
              s2 == HomeworkRollover(s1, className, subject)
              s3 == [s2 EXCEPT !.roomMembers = MapSet(@, id, {}),
                               !.readyMap = MapSet(@, id, {}),
                               !.roomCounters = MapSet(@, id, <<>>)]
          IN sendRoomLists(s3)

\* a close that also drops the room's runtime state
RoomCloseClearsH(s, w, roomId) ==
  IF s.sockRole[w] \notin {"teacher", "admin"} THEN s
  ELSE IF roomId \notin DOMAIN s.rooms THEN s
  ELSE LET s1 == [s EXCEPT !.rooms[roomId].active = FALSE,
                           !.roomMembers = MapSet(@, roomId, {}),
                           !.readyMap = MapSet(@, roomId, {})]
       IN sendRoomLists(broadcastRoom(s1, roomId, "roomClosed"))

RoomCloseH(s, w, roomId) ==
  IF s.sockRole[w] \notin {"teacher", "admin"} THEN s
  ELSE IF roomId \notin DOMAIN s.rooms THEN s
  ELSE LET s1 == [s EXCEPT !.rooms[roomId].active = FALSE]
       IN sendRoomLists(broadcastRoom(s1, roomId, "roomClosed"))

(***************************************************************************)
(* Thought collection: thoughtStart, thoughtSubmit, thoughtEnd             *)
(***************************************************************************)
\* text.toLowerCase() on the texts the model sends
Lower(t) ==
  CASE t = "Yes" -> "yes"
    [] t = "No" -> "no"
    [] t = "Ann" -> "ann"
    [] t = "Arp" -> "arp"
    [] t = "ARP" -> "arp"
    [] t = "Ben" -> "ben"
    [] t = "Bay" -> "bay"
    [] t = "BAY" -> "bay"
    [] t = "Cy" -> "cy"
    [] t = "Coe" -> "coe"
    [] t = "COE" -> "coe"
    [] t = "Tell" -> "tell"
    [] t = "Root" -> "root"
    [] t = "New" -> "new"
    [] t = "Pupil" -> "pupil"
    [] OTHER -> t

broadcastThoughts(s, roomId, type, results) ==
  Send(s, {[Msg(x, type, roomId) EXCEPT !.results = results] :
             x \in Clients(s, roomId)})

\* a thoughtStart that keeps what was submitted
ThoughtStartKeepsH(s, w, mRoom) ==
  LET roomId == IF mRoom # NoRoom THEN mRoom ELSE s.sockRoom[w]
  IN IF s.sockRole[w] \notin {"teacher", "admin"} THEN s
     ELSE broadcastThoughts(
            [s EXCEPT !.thoughtsMap =
               MapSet(@, roomId, [MapGet(@, roomId, NoThoughts) EXCEPT !.active = TRUE])],
            roomId, "thoughtState", <<>>)

ThoughtStartH(s, w, mRoom) ==
  LET roomId == IF mRoom # NoRoom THEN mRoom ELSE s.sockRoom[w]
  IN IF s.sockRole[w] \notin {"teacher", "admin"} THEN s
     ELSE broadcastThoughts(
            [s EXCEPT !.thoughtsMap =
               MapSet(@, roomId, [active |-> TRUE, entries |-> <<>>])],
            roomId, "thoughtState", <<>>)

ThoughtSubmitH(s, w, mRoom, mText) ==
  LET roomId == IF mRoom # NoRoom THEN mRoom ELSE s.sockRoom[w]
      text == Trim(mText)
  IN IF roomId \notin DOMAIN s.thoughtsMap THEN s
     ELSE IF ~s.thoughtsMap[roomId].active THEN s
     ELSE IF text = "" THEN s
     ELSE [s EXCEPT !.thoughtsMap[roomId].entries = Append(@, Lower(text))]

\* A JavaScript value that is a number (num), or the string that is str
\* followed by num digits 1.
Number(n) == [type |-> "number", num |-> n, str |-> ""]

\* String(Object.prototype[txt]) for the lower-case names that
\* Object.prototype defines: counts[txt] of a plain object that has no own
\* property txt
InheritedText(txt) ==
  CASE txt = "constructor" -> "function Object() { [native code] }"
    [] txt = "__proto__" -> "[object Object]"
    [] OTHER -> ""

\* the position of the own property txt of counts, 0 for none
OwnIndex(counts, txt) ==
  LET hits == {i \in DOMAIN counts : counts[i].text = txt}
  IN IF hits = {} THEN 0 ELSE CHOOSE i \in hits : TRUE

\* the integer that the property name txt is the canonical decimal form of
\* (an integer index of the object), -1 for any other name; on the texts the
\* model sends
ArrayIndex(txt) ==
  CASE txt = "0" -> 0
    [] txt = "1" -> 1
    [] txt = "2" -> 2
    [] txt = "3" -> 3
    [] txt = "4" -> 4
    [] txt = "5" -> 5
    [] txt = "6" -> 6
    [] txt = "7" -> 7
    [] txt = "8" -> 8
    [] txt = "9" -> 9
    [] txt = "10" -> 10
    [] OTHER -> -1

\* the new own property item of the plain object counts, at its place in the
\* order of Object.entries: integer indices first, in ascending order, then
\* the other names in the order of their creation
AddProperty(counts, item) ==
  LET k == ArrayIndex(item.text)
      before == IF k < 0 THEN DOMAIN counts
                ELSE {i \in DOMAIN counts :
                        ArrayIndex(counts[i].text) >= 0 /\ ArrayIndex(counts[i].text) < k}
      n == Cardinality(before)
  IN [i \in 1 .. (Len(counts) + 1) |->
        IF i <= n THEN counts[i]
        ELSE IF i = n + 1 THEN item
        ELSE counts[i - 1]]

\* counts[txt] = (counts[txt] || 0) + 1 on the plain object counts, kept as
\* the sequence of its own properties in the order of Object.entries
CountUp(counts, txt) ==
  LET idx == OwnIndex(counts, txt)
  IN IF idx # 0
     THEN [counts EXCEPT ![idx].count.num = @ + 1]
     ELSE IF txt = "__proto__" THEN counts
     ELSE IF InheritedText(txt) # ""
     THEN AddProperty(counts, [text |-> txt,
                               count |-> [type |-> "string", num |-> 1,
                                          str |-> InheritedText(txt)]])
     ELSE AddProperty(counts, [text |-> txt, count |-> Number(1)])

\* entries.forEach((txt) => { counts[txt] = (counts[txt] || 0) + 1 })
RECURSIVE TallyThoughts(_, _)
TallyThoughts(entries, counts) ==
  IF entries = <<>> THEN counts
  ELSE TallyThoughts(Tail(entries), CountUp(counts, Head(entries)))

\* the comparator (a, b) => b.count - a.count; NaN counts as 0
Compare(a, b) ==
  IF a.count.type = "number" /\ b.count.type = "number"
  THEN b.count.num - a.count.num
  ELSE 0

\* Array.prototype.sort on a short array: the length of the run the array
\* starts with, ...
RECURSIVE RunLength(_, _, _)
RunLength(arr, isDescending, idx) ==
  IF idx > Len(arr) THEN idx - 1
  ELSE LET order == Compare(arr[idx], arr[idx - 1])
       IN IF (isDescending /\ order >= 0) \/ (~isDescending /\ order < 0)
          THEN idx - 1
          ELSE RunLength(arr, isDescending, idx + 1)

ReverseRange(arr, n) ==
  [i \in DOMAIN arr |-> IF i <= n THEN arr[n + 1 - i] ELSE arr[i]]

\* ... the binary search for the place of the pivot in arr[1 .. start - 1]
\* (left and right count from 0), ...
RECURSIVE SearchLeft(_, _, _, _)
SearchLeft(arr, pivot, left, right) ==
  IF left >= right THEN left
  ELSE LET mid == left + ((right - left) \div 2)
       IN IF Compare(pivot, arr[mid + 1]) < 0
          THEN SearchLeft(arr, pivot, left, mid)
          ELSE SearchLeft(arr, pivot, mid + 1, right)

\* ... the move of arr[start] to the place left + 1, ...
InsertAt(arr, start, left) ==
  [i \in DOMAIN arr |->
     IF i <= left \/ i > start THEN arr[i]
     ELSE IF i = left + 1 THEN arr[start]
     ELSE arr[i - 1]]

\* ... and the insertion of the elements behind the run.
RECURSIVE BinaryInsertionSort(_, _)
BinaryInsertionSort(arr, start) ==
  IF start > Len(arr) THEN arr
  ELSE BinaryInsertionSort(
         InsertAt(arr, start, SearchLeft(arr, arr[start], 0, start - 1)),
         start + 1)

\* results.sort((a, b) => b.count - a.count)
SortResults(arr) ==
  IF Len(arr) < 2 THEN arr
  ELSE LET isDescending == Compare(arr[2], arr[1]) < 0
           run == RunLength(arr, isDescending, 3)
           made == IF isDescending THEN ReverseRange(arr, run) ELSE arr
       IN BinaryInsertionSort(made, run + 1)

ThoughtResults(entries) == SortResults(TallyThoughts(entries, <<>>))

ThoughtEndH(s, w, mRoom) ==
  LET roomId == IF mRoom # NoRoom THEN mRoom ELSE s.sockRoom[w]
  IN IF s.sockRole[w] \notin {"teacher", "admin"} THEN s
     ELSE IF roomId \notin DOMAIN s.thoughtsMap THEN s
     ELSE broadcastThoughts(
            [s EXCEPT !.thoughtsMap = MapSet(@, roomId, NoThoughts)],
            roomId, "thoughtResults",
            ThoughtResults(s.thoughtsMap[roomId].entries))

\* msg.field || default: the field of the message, the default when the
\* message has no such field
Field(m, name, default) == IF name \in DOMAIN m THEN m[name] ELSE default

(***************************************************************************)
(* initProfile: login and registration                                     *)
(***************************************************************************)
\* users.values(): the users in the order of the file, then in the order
\* of their registration
InitUserOrder == <<"t1", "a1", "s1", "s2", "s3">>

\* genId('s') and genId('t') for the first, second, ... registration
FreshUsers == <<"s-n1", "s-n2", "s-n3">>
FreshTeachers == <<"t-n1", "t-n2", "t-n3">>

Registered(s) == DOMAIN s.users \ {InitUserOrder[i] : i \in DOMAIN InitUserOrder}

NewUserId(s, role) ==
  IF role = "teacher" THEN FreshTeachers[Cardinality(Registered(s)) + 1]
  ELSE FreshUsers[Cardinality(Registered(s)) + 1]

UserList(s) ==
  LET fresh == [i \in 1 .. (2 * Len(FreshUsers)) |->
                  IF i % 2 = 1 THEN FreshUsers[(i + 1) \div 2]
                  ELSE FreshTeachers[i \div 2]]
      InUsers(u) == u \in DOMAIN s.users
  IN SelectSeq(InitUserOrder \o fresh, InUsers)

\* the test of the loop body of findUserByCredentials
CredentialsMatch(u, role, firstName, lastName, className, salutation, password) ==
  /\ u.role = role
  /\ IF role = "teacher"
     THEN /\ u.salutation = salutation
          /\ Lower(u.lastName) = Lower(lastName)
     ELSE /\ Lower(u.firstName) = Lower(firstName)
          /\ Lower(u.lastName) = Lower(lastName)
          /\ (className # "" => u.className = className)
  /\ ~(u.password # "" /\ password # "" /\ u.password # password)

\* findUserByCredentials: the id of the first user that matches, NoUser for
\* null
findUserByCredentials(s, role, firstName, lastName, className, salutation, password) ==
  LET list == UserList(s)
      hits == {i \in DOMAIN list :
                 CredentialsMatch(s.users[list[i]], role, firstName, lastName,
                                  className, salutation, password)}
  IN IF hits = {} THEN NoUser
     ELSE list[CHOOSE i \in hits : \A j \in hits : i <= j]

\* `${first} ${last}`.trim() for trimmed first and last
StudentName(first, last) ==
  IF first = "" THEN last
  ELSE IF last = "" THEN first
  ELSE first \o " " \o last

\* users.set(id, user) for a new user: the statistics of the user are empty
\* (zero), and so are the user's entries in the runtime maps
WithUser(s, id, user) ==
  [s EXCEPT !.users = MapSet(@, id, user),
            !.stats = MapSet(@, id, [sub \in Subjects |-> ZeroStats]),
            !.daily = MapSet(@, id, [sub \in Subjects |-> [d \in Days |-> ZeroCounter]]),
            !.userSockets = MapSet(@, id, {}),
            !.pollTemplates = MapSet(@, id, <<>>),
            !.roomCounters = [r \in DOMAIN @ |-> MapSet(@[r], id, ZeroCounter)],
            !.toiletMap = [r \in DOMAIN @ |-> MapSet(@[r], id, NoToilet)]]

\* the updates of the found or new user and the attachment of the socket
\* (lines 536-559).  The socket is not detached from the user it had before
\* and keeps its current room.
InitProfileAttach(s, w, uid, role, firstName, lastName, salutation, className, password) ==
  LET u0 == s.users[uid]
      u1 == IF role \in {"teacher", "admin"} /\ salutation # "" /\ lastName # ""
            THEN [u0 EXCEPT !.salutation = salutation, !.lastName = lastName,
                            !.name = salutation \o " " \o lastName]
            ELSE u0
      first == IF firstName # "" THEN firstName ELSE u1.firstName
      last == IF lastName # "" THEN lastName ELSE u1.lastName
      u2 == IF role = "student"
            THEN [u1 EXCEPT !.firstName = first, !.lastName = last,
                            !.className = IF className # "" THEN className ELSE @,
                            !.name = StudentName(first, last)]
            ELSE u1
      u3 == IF password # "" THEN [u2 EXCEPT !.password = password] ELSE u2
      s1 == [s EXCEPT !.users[uid] = u3,
                      !.sockUser[w] = uid,
                      !.sockRole[w] = u3.role,
                      !.userSockets = AddIn(@, uid, w)]
  IN Send(s1, {Msg(w, "profile", NoRoom), Msg(w, "roomList", NoRoom),
               Msg(w, "catalogs", NoRoom)})

InitProfileH(s, w, m) ==
  LET mode == IF Field(m, "mode", "") = "login" THEN "login" ELSE "register"
      incomingId == Field(m, "userId", NoUser)
      role == IF Field(m, "role", "") \in {"teacher", "student", "admin"}
              THEN m.role ELSE "student"
      firstName == IF role = "student" THEN Trim(Field(m, "firstName", "")) ELSE ""
      lastName == Trim(Field(m, "lastName", ""))
      salutation == IF role = "teacher"
                    THEN (IF Field(m, "salutation", "") = "Frau" THEN "Frau" ELSE "Herr")
                    ELSE ""
      className == Trim(Field(m, "className", ""))
      password == Trim(Field(m, "password", ""))
      found == findUserByCredentials(s, role, firstName, lastName, className,
                                     salutation, password)
      authError == Send(s, {Msg(w, "authError", NoRoom)})
  IN IF incomingId # NoUser /\ incomingId \in DOMAIN s.users
     THEN IF /\ s.users[incomingId].password # ""
             /\ password # ""
             /\ s.users[incomingId].password # password
          THEN authError
          ELSE InitProfileAttach(s, w, incomingId, role, firstName, lastName,
                                 salutation, className, password)
     ELSE IF mode = "login"
     THEN IF found = NoUser THEN authError
          ELSE InitProfileAttach(s, w, found, role, firstName, lastName,
                                 salutation, className, password)
     ELSE IF password = "" \/ lastName = "" \/ (role = "student" /\ firstName = "")
     THEN authError
     ELSE IF found # NoUser THEN authError
     ELSE LET id == NewUserId(s, role)
              name == IF role \in {"teacher", "admin"}
                      THEN salutation \o " " \o lastName
                      ELSE firstName \o " " \o lastName
              user == [role |-> role, className |-> className,
                       firstName |-> firstName, lastName |-> lastName,
                       salutation |-> salutation, password |-> password,
                       name |-> name, teachings |-> <<>>]
          IN InitProfileAttach(WithUser(s, id, user), w, id, role, firstName,
                               lastName, salutation, className, password)

(***************************************************************************)
(* The catalogs: createClass, createSubject, addTeaching                   *)
(***************************************************************************)
broadcastCatalogs(s) ==
  Send(s, {Msg(x, "catalogs", NoRoom) : x \in OpenClients(s)})

CreateClassH(s, w, mClassName) ==
  IF s.sockRole[w] # "admin" THEN s
  ELSE IF Trim(mClassName) = "" THEN s
  ELSE broadcastCatalogs([s EXCEPT !.classes = @ \cup {Trim(mClassName)}])

CreateSubjectH(s, w, mSubject) ==
  IF s.sockRole[w] # "admin" THEN s
  ELSE IF Trim(mSubject) = "" THEN s
  ELSE broadcastCatalogs([s EXCEPT !.subjects = @ \cup {Trim(mSubject)}])

AddTeachingH(s, w, mClassName, mSubject) ==
  LET className == Trim(mClassName)
      subject == Trim(mSubject)
      u == s.sockUser[w]
      teaching == [className |-> className, subject |-> subject]
      exists == \E i \in DOMAIN s.users[u].teachings : s.users[u].teachings[i] = teaching
  IN IF s.sockRole[w] \notin {"teacher", "admin"} THEN s
     ELSE IF className = "" \/ subject = "" THEN s
     ELSE Send([s EXCEPT !.users[u].teachings = IF exists THEN @ ELSE Append(@, teaching)],
               {Msg(w, "profile", NoRoom)})

(***************************************************************************)
(* The lists a client asks for: roomListRequest, pollTemplateList,         *)
(* homeworkListRequest                                                     *)
(***************************************************************************)
RoomListRequestH(s, w) == Send(s, {Msg(w, "roomList", NoRoom)})

PollTemplateListH(s, w) == Send(s, {Msg(w, "pollTemplates", NoRoom)})

HomeworkListRequestH(s, w) == Send(s, {Msg(w, "homeworkList", NoRoom)})

(***************************************************************************)
(* homeworkUpload                                                          *)
(***************************************************************************)
\* name.replace(/[^a-zA-Z0-9._-]/g, '_') on the file names the model sends
SafeFileName(name) ==
  CASE name = "my file.txt" -> "my_file.txt"
    [] OTHER -> name

HomeworkUploadH(s, w, mRoom, fileName, fileData) ==
  LET roomId == IF mRoom # NoRoom THEN mRoom ELSE s.sockRoom[w]
      u == s.sockUser[w]
      user == s.users[u]
      name == SafeFileName(fileName)
  IN IF roomId \notin DOMAIN s.rooms THEN s
     ELSE IF user.role # "student" THEN s
     ELSE IF name = "" \/ fileData = "" THEN s
     ELSE LET room == s.rooms[roomId]
              dir == "/data/uploads/"
                       \o (IF room.className # "" THEN room.className ELSE "unknown")
                       \o "/" \o SubjectOf(room)
              entry == [userId |-> u,
                        name |-> IF user.name # "" THEN user.name
                                 ELSE StudentName(user.firstName, user.lastName),
                        fileName |-> name,
                        url |-> dir \o "/" \o ToString(s.now) \o "-" \o name,
                        ts |-> s.now]
              s1 == [s EXCEPT !.uploadsMap =
                       MapSet(@, roomId, Append(MapGet(@, roomId, <<>>), entry))]
              staff == {x \in Clients(s, roomId) : s.sockRole[x] \in {"teacher", "admin"}}
          IN Send(s1, {Msg(x, "homeworkUpload", roomId) : x \in staff}
                        \cup {Msg(w, "homeworkUploadAck", NoRoom)})

(***************************************************************************)
(* The clock                                                               *)
(***************************************************************************)
AdvanceH(s, ms) == [s EXCEPT !.now = @ + ms]

(***************************************************************************)
(* Initial state: users.json and rooms.json hold the users and rooms       *)
(* below, the statistics and logs are empty, and six clients have          *)
(* connected and sent initProfile.  The runtime maps are empty.            *)
(***************************************************************************)
\* a user record of users.json
User(role, className, firstName, lastName, salutation, password, name) ==
  [role |-> role, className |-> className, firstName |-> firstName,
   lastName |-> lastName, salutation |-> salutation, password |-> password,
   name |-> name, teachings |-> <<>>]

InitUsers ==
  [u \in Users |->
     CASE u = "t1" -> User("teacher", "", "", "Tell", "Herr", "", "Herr Tell")
       [] u = "a1" -> User("admin", "", "", "Root", "", "", " Root")
       [] u = "s1" -> User("student", "7a", "Ann", "Arp", "", "pw", "Ann Arp")
       [] u = "s2" -> User("student", "7b", "Ben", "Bay", "", "", "Ben Bay")
       [] OTHER -> User("student", "", "Cy", "Coe", "", "", "Cy Coe")]

InitRooms ==
  [r \in RoomIds |->
     CASE r = "A" -> [className |-> "7a", subject |-> "Math", active |-> TRUE,
                      allowSelfCall |-> TRUE]
       [] r = "B" -> [className |-> "7a", subject |-> "Math", active |-> TRUE,
                      allowSelfCall |-> FALSE]
       [] OTHER -> [className |-> "7a", subject |-> "default", active |-> FALSE,
                    allowSelfCall |-> FALSE]]

InitSockUser ==
  [w \in Socks |->
     CASE w \in {"w1", "w2"} -> "s1"
       [] w = "w3" -> "t1"
       [] w = "w4" -> "s2"
       [] w = "w5" -> "s3"
       [] w = "w6" -> "a1"
       [] OTHER -> NoUser]

InitSockRole ==
  [w \in Socks |->
     IF InitSockUser[w] = NoUser THEN NoRole ELSE InitUsers[InitSockUser[w]].role]

InitSockOpen == [w \in Socks |-> w \notin SpareSocks]

Init ==
  /\ users = InitUsers
  /\ rooms = InitRooms
  /\ stats = [u \in Users |-> [sub \in Subjects |-> ZeroStats]]
  /\ daily = [u \in Users |-> [sub \in Subjects |-> [d \in Days |-> ZeroCounter]]]
  /\ logs = [r \in RoomKeys |-> <<>>]
  /\ userSockets = [u \in UserKeys |-> {w \in Socks : InitSockUser[w] = u}]
  /\ sockUser = InitSockUser
  /\ sockRole = InitSockRole
  /\ sockRoom = [w \in Socks |-> NoRoom]
  /\ sockOpen = InitSockOpen
  /\ roomMembers = [r \in RoomKeys |-> {}]
  /\ readyMap = <<>>
  /\ roomCounters = [r \in RoomKeys |-> [u \in UserKeys |-> ZeroCounter]]
  /\ toiletMap = [r \in RoomKeys |-> [u \in UserKeys |-> NoToilet]]
  /\ importantMap = [r \in RoomKeys |-> {}]
  /\ pollsMap = [r \in RoomKeys |-> NoPoll]
  /\ questionsMap = [r \in RoomKeys |-> <<>>]
  /\ thoughtsMap = <<>>
  /\ pollTemplates = [u \in UserKeys |-> <<>>]
  /\ homework = [k \in HwKeys |-> NoHomework]
  /\ classes = Classes
  /\ subjects = {"Math"}
  /\ uploadsMap = <<>>
  /\ nextId = 1
  /\ now = T0

(***************************************************************************)
(* The model explores the states within its bounds.                        *)
(***************************************************************************)
Bounded(s) ==
  /\ \A u \in DOMAIN s.stats, sub \in Subjects :
       /\ s.stats[u][sub].signals <= MaxCount
       /\ s.stats[u][sub].calls <= MaxCount
       /\ \A k \in RatingKeys : s.stats[u][sub].ratings[k] <= MaxCount
  /\ \A r \in DOMAIN s.roomCounters : \A u \in DOMAIN s.roomCounters[r] :
       /\ s.roomCounters[r][u].signals <= MaxCount
       /\ s.roomCounters[r][u].calls <= MaxCount
  /\ \A r \in DOMAIN s.logs : Len(s.logs[r]) <= MaxLog
  /\ s.nextId <= MaxIds + 1
  /\ s.now <= T0 + MaxElapsedSec * 1000
  /\ \A r \in DOMAIN s.thoughtsMap : Len(s.thoughtsMap[r].entries) <= MaxThoughts
  /\ Cardinality(DOMAIN s.rooms \ RoomIds) <= MaxRooms
  /\ Cardinality(DOMAIN s.users \ Users) <= MaxUsers
  /\ \A r \in DOMAIN s.uploadsMap : Len(s.uploadsMap[r]) <= MaxUploads

\* the same bounds, with room for a second signal of the same user
BoundedWide(s) ==
  /\ \A u \in DOMAIN s.stats, sub \in Subjects :
       /\ s.stats[u][sub].signals <= MaxSignals
       /\ s.stats[u][sub].calls <= MaxCount
       /\ \A k \in RatingKeys : s.stats[u][sub].ratings[k] <= MaxCount
  /\ \A r \in DOMAIN s.roomCounters : \A u \in DOMAIN s.roomCounters[r] :
       /\ s.roomCounters[r][u].signals <= MaxSignals
       /\ s.roomCounters[r][u].calls <= MaxCount
  /\ \A r \in DOMAIN s.logs : Len(s.logs[r]) <= MaxLog
  /\ s.nextId <= MaxIds + 1
  /\ s.now <= T0 + MaxElapsedSec * 1000
  /\ \A r \in DOMAIN s.thoughtsMap : Len(s.thoughtsMap[r].entries) <= MaxThoughts
  /\ Cardinality(DOMAIN s.rooms \ RoomIds) <= MaxRooms
  /\ Cardinality(DOMAIN s.users \ Users) <= MaxUsers
  /\ \A r \in DOMAIN s.uploadsMap : Len(s.uploadsMap[r]) <= MaxUploads

\* the same bounds, with room for calls of one user in several rooms
BoundedCalls(s) ==
  /\ \A u \in DOMAIN s.stats, sub \in Subjects :
       /\ s.stats[u][sub].signals <= MaxCount
       /\ s.stats[u][sub].calls <= MaxCalls
       /\ \A k \in RatingKeys : s.stats[u][sub].ratings[k] <= MaxCount
  /\ \A r \in DOMAIN s.roomCounters : \A u \in DOMAIN s.roomCounters[r] :
       /\ s.roomCounters[r][u].signals <= MaxCount
       /\ s.roomCounters[r][u].calls <= MaxCount
  /\ \A r \in DOMAIN s.logs : Len(s.logs[r]) <= MaxLog
  /\ s.nextId <= MaxIds + 1
  /\ s.now <= T0 + MaxElapsedSec * 1000
  /\ \A r \in DOMAIN s.thoughtsMap : Len(s.thoughtsMap[r].entries) <= MaxThoughts
  /\ Cardinality(DOMAIN s.rooms \ RoomIds) <= MaxRooms
  /\ Cardinality(DOMAIN s.users \ Users) <= MaxUsers
  /\ \A r \in DOMAIN s.uploadsMap : Len(s.uploadsMap[r]) <= MaxUploads

Apply(s) ==
  /\ users' = s.users
  /\ rooms' = s.rooms
  /\ stats' = s.stats
  /\ daily' = s.daily
  /\ logs' = s.logs
  /\ userSockets' = s.userSockets
  /\ sockUser' = s.sockUser
  /\ sockRole' = s.sockRole
  /\ sockRoom' = s.sockRoom
  /\ sockOpen' = s.sockOpen
  /\ roomMembers' = s.roomMembers
  /\ readyMap' = s.readyMap
  /\ roomCounters' = s.roomCounters
  /\ toiletMap' = s.toiletMap
  /\ importantMap' = s.importantMap
  /\ pollsMap' = s.pollsMap
  /\ questionsMap' = s.questionsMap
  /\ thoughtsMap' = s.thoughtsMap
  /\ pollTemplates' = s.pollTemplates
  /\ homework' = s.homework
  /\ classes' = s.classes
  /\ subjects' = s.subjects
  /\ uploadsMap' = s.uploadsMap
  /\ nextId' = s.nextId
  /\ now' = s.now

\* an open socket that has sent initProfile (ws.userId is set)
CanSend(w) == sockOpen[w] /\ sockUser[w] # NoUser

\* s, the state a handler leaves, becomes the state
Step(s) == Bounded(s) /\ Apply(s)

(***************************************************************************)
(* Actions: one per message type, plus the socket close and the clock.     *)
(***************************************************************************)
Join(w, roomId) ==
  /\ CanSend(w)
  /\ Step(JoinH(Cur, w, roomId))

Leave(w) ==
  /\ CanSend(w)
  /\ Step(LeaveH(Cur, w))

CreateClass(w, mClassName) ==
  /\ CanSend(w)
  /\ Step(CreateClassH(Cur, w, mClassName))

CreateSubject(w, mSubject) ==
  /\ CanSend(w)
  /\ Step(CreateSubjectH(Cur, w, mSubject))

AddTeaching(w, mClassName, mSubject) ==
  /\ CanSend(w)
  /\ Step(AddTeachingH(Cur, w, mClassName, mSubject))

RoomListRequest(w) ==
  /\ CanSend(w)
  /\ Step(RoomListRequestH(Cur, w))

PollTemplateList(w) ==
  /\ CanSend(w)
  /\ Step(PollTemplateListH(Cur, w))

HomeworkListRequest(w) ==
  /\ CanSend(w)
  /\ Step(HomeworkListRequestH(Cur, w))

HomeworkUpload(w, mRoom, fileName, fileData) ==
  /\ CanSend(w)
  /\ Step(HomeworkUploadH(Cur, w, mRoom, fileName, fileData))

InitProfile(w, m) ==
  /\ sockOpen[w]
  /\ Step(InitProfileH(Cur, w, m))

\* A socket name is free when the server holds no socket of that name:
\* none is open (wss.clients) and none is left in a set of userSockets.
\* detachSocket removes a closed socket from the set of ws.userId only, so
\* a socket that sent initProfile for two users stays, closed, in the set
\* of the first user, and its name is never used again.
FreeSocket(s, w) ==
  /\ ~s.sockOpen[w]
  /\ \A u \in DOMAIN s.userSockets : w \notin s.userSockets[u]

\* the name of the next socket object: the first free name of the slots
NewSocket(s, slots) ==
  slots[CHOOSE i \in DOMAIN slots :
          /\ FreeSocket(s, slots[i])
          /\ \A j \in 1 .. (i - 1) : ~FreeSocket(s, slots[j])]

\* wss.on('connection'): a client connects; the server gets a new socket
\* object, which has no user, no role and no room and is in no set of
\* userSockets
ConnectionH(s, slots) ==
  LET w == NewSocket(s, slots)
  IN [s EXCEPT !.sockOpen[w] = TRUE,
               !.sockUser[w] = NoUser,
               !.sockRole[w] = NoRole,
               !.sockRoom[w] = NoRoom]

Connection(slots) ==
  /\ \E i \in DOMAIN slots : FreeSocket(Cur, slots[i])
  /\ Step(ConnectionH(Cur, slots))

Close(w) ==
  /\ sockOpen[w]
  /\ Step(CloseH(Cur, w))

ToggleSelfCall(w, mRoom, allow) ==
  /\ CanSend(w)
  /\ Step(ToggleSelfCallH(Cur, w, mRoom, allow))

StepWide(s) == BoundedWide(s) /\ Apply(s)

Withdraw(w, mRoom) ==
  /\ CanSend(w)
  /\ Step(WithdrawH(Cur, w, mRoom))

WithdrawWide(w, mRoom) ==
  /\ CanSend(w)
  /\ StepWide(WithdrawH(Cur, w, mRoom))

ReadyWide(w, mRoom) ==
  /\ CanSend(w)
  /\ StepWide(ReadyH(Cur, w, mRoom))

AckWide(w, mRoom, target) ==
  /\ CanSend(w)
  /\ StepWide(AckH(Cur, w, mRoom, target))

StepCalls(s) == BoundedCalls(s) /\ Apply(s)

AckCalls(w, mRoom, target) ==
  /\ CanSend(w)
  /\ StepCalls(AckH(Cur, w, mRoom, target))

SelfCallCalls(w, mRoom) ==
  /\ CanSend(w)
  /\ StepCalls(SelfCallH(Cur, w, mRoom))

LogDeleteCalls(w, mRoom, entryId) ==
  /\ CanSend(w)
  /\ StepCalls(LogDeleteH(Cur, w, mRoom, entryId))

AdvanceWide(ms) ==
  /\ ms > 0
  /\ StepWide(AdvanceH(Cur, ms))

Ready(w, mRoom) ==
  /\ CanSend(w)
  /\ Step(ReadyH(Cur, w, mRoom))

Important(w, mRoom) ==
  /\ CanSend(w)
  /\ Step(ImportantH(Cur, w, mRoom))

ImportantClear(w, mRoom, target) ==
  /\ CanSend(w)
  /\ Step(ImportantClearH(Cur, w, mRoom, target))

ImportantWithdraw(w, mRoom) ==
  /\ CanSend(w)
  /\ Step(ImportantWithdrawH(Cur, w, mRoom))

Toilet(w, mRoom) ==
  /\ CanSend(w)
  /\ Step(ToiletH(Cur, w, mRoom))

ToiletAllow(w, mRoom, target) ==
  /\ CanSend(w)
  /\ Step(ToiletAllowH(Cur, w, mRoom, target))

ToiletBack(w, mRoom) ==
  /\ CanSend(w)
  /\ Step(ToiletBackH(Cur, w, mRoom))

SelfCall(w, mRoom) ==
  /\ CanSend(w)
  /\ Step(SelfCallH(Cur, w, mRoom))

Ack(w, mRoom, target) ==
  /\ CanSend(w)
  /\ Step(AckH(Cur, w, mRoom, target))

Rate(w, mRoom, target, rating) ==
  /\ CanSend(w)
  /\ Step(RateH(Cur, w, mRoom, target, rating))

LogDelete(w, mRoom, entryId) ==
  /\ CanSend(w)
  /\ Step(LogDeleteH(Cur, w, mRoom, entryId))

PollCreate(w, mRoom, question, options, multiple) ==
  /\ CanSend(w)
  /\ Step(PollCreateH(Cur, w, mRoom, question, options, multiple))

PollVote(w, mRoom, selected) ==
  /\ CanSend(w)
  /\ Step(PollVoteH(Cur, w, mRoom, selected))

Advance(ms) ==
  /\ ms > 0
  /\ Step(AdvanceH(Cur, ms))

RoomCreate(w, mSubject, mClassName) ==
  /\ CanSend(w)
  /\ Step(RoomCreateH(Cur, w, mSubject, mClassName))

RoomClose(w, roomId) ==
  /\ CanSend(w)
  /\ Step(RoomCloseH(Cur, w, roomId))

HomeworkSet(w, mClassName, mSubject, mText) ==
  /\ CanSend(w)
  /\ Step(HomeworkSetH(Cur, w, mClassName, mSubject, mText))

QuestionSubmit(w, mRoom, mText) ==
  /\ CanSend(w)
  /\ Step(QuestionSubmitH(Cur, w, mRoom, mText))

PollTemplateCreate(w, question, options, multiple) ==
  /\ CanSend(w)
  /\ Step(PollTemplateCreateH(Cur, w, question, options, multiple))

PollTemplateActivate(w, mRoom, tmplId) ==
  /\ CanSend(w)
  /\ Step(PollTemplateActivateH(Cur, w, mRoom, tmplId))

ThoughtStart(w, mRoom) ==
  /\ CanSend(w)
  /\ Step(ThoughtStartH(Cur, w, mRoom))

ThoughtSubmit(w, mRoom, mText) ==
  /\ CanSend(w)
  /\ Step(ThoughtSubmitH(Cur, w, mRoom, mText))

ThoughtEnd(w, mRoom) ==
  /\ CanSend(w)
  /\ Step(ThoughtEndH(Cur, w, mRoom))

\* msg.file || {}
FileOf(m) == Field(m, "file", [name |-> "", data |-> ""])

\* The dispatch of ws.on('message') for a parsed message m: initProfile
\* comes first; after it nothing happens on a socket without a user; the
\* first branch whose type (and role) matches handles the message, and a
\* message no branch matches is ignored.
Handle(s, w, m) ==
  LET type == Field(m, "type", "")
      roomId == Field(m, "roomId", NoRoom)
      userId == Field(m, "userId", NoUser)
      text == Field(m, "text", "")
      className == Field(m, "className", "")
      subject == Field(m, "subject", "")
      question == Field(m, "question", "")
      options == Field(m, "options", <<>>)
      multiple == Field(m, "multiple", FALSE)
  IN
  IF type = "initProfile" THEN InitProfileH(s, w, m)
  ELSE IF s.sockUser[w] = NoUser THEN s
  ELSE IF s.sockUser[w] \notin DOMAIN s.users THEN s
  ELSE CASE type = "roomCreate" -> RoomCreateH(s, w, subject, className)
         [] type = "roomClose" -> RoomCloseH(s, w, roomId)
         [] type = "createClass" -> CreateClassH(s, w, className)
         [] type = "createSubject" -> CreateSubjectH(s, w, subject)
         [] type = "addTeaching" -> AddTeachingH(s, w, className, subject)
         [] type = "join" -> JoinH(s, w, roomId)
         [] type = "leave" -> LeaveH(s, w)
         [] type = "toggleSelfCall" ->
              ToggleSelfCallH(s, w, roomId, Field(m, "allow", FALSE))
         [] type = "withdraw" -> WithdrawH(s, w, roomId)
         [] type = "ready" -> ReadyH(s, w, roomId)
         [] type = "important" -> ImportantH(s, w, roomId)
         [] type = "importantClear" -> ImportantClearH(s, w, roomId, userId)
         [] type = "importantWithdraw" -> ImportantWithdrawH(s, w, roomId)
         [] type = "questionSubmit" -> QuestionSubmitH(s, w, roomId, text)
         [] type = "pollCreate" ->
              PollCreateH(s, w, roomId, question, options, multiple)
         [] type = "pollTemplateCreate" ->
              PollTemplateCreateH(s, w, question, options, multiple)
         [] type = "pollTemplateList" -> PollTemplateListH(s, w)
         [] type = "pollTemplateActivate" ->
              PollTemplateActivateH(s, w, roomId, Field(m, "templateId", 0))
         [] type = "pollVote" -> PollVoteH(s, w, roomId, options)
         [] type = "homeworkSet" -> HomeworkSetH(s, w, className, subject, text)
         [] type = "homeworkListRequest" -> HomeworkListRequestH(s, w)
         [] type = "homeworkUpload" ->
              HomeworkUploadH(s, w, roomId, FileOf(m).name, FileOf(m).data)
         [] type = "thoughtStart" -> ThoughtStartH(s, w, roomId)
         [] type = "thoughtEnd" -> ThoughtEndH(s, w, roomId)
         [] type = "thoughtSubmit" -> ThoughtSubmitH(s, w, roomId, text)
         [] type = "toilet" -> ToiletH(s, w, roomId)
         [] type = "toiletAllow" -> ToiletAllowH(s, w, roomId, userId)
         [] type = "toiletBack" -> ToiletBackH(s, w, roomId)
         [] type = "selfCall" -> SelfCallH(s, w, roomId)
         [] type = "ack" -> AckH(s, w, roomId, userId)
         [] type = "rate" -> RateH(s, w, roomId, userId, Field(m, "rating", ""))
         [] type = "logDelete" -> LogDeleteH(s, w, roomId, Field(m, "entryId", 0))
         [] type = "roomListRequest" -> RoomListRequestH(s, w)
         [] OTHER -> s

\* the server receives the message m on the socket w
Message(w, m) ==
  /\ sockOpen[w]
  /\ Step(Handle(Cur, w, m))

(***************************************************************************)
(* Spec: the room sessions.  The student s1 has two devices: w1 sends      *)
(* the messages that move a user between rooms and set the flags, w2      *)
(* joins, leaves, disconnects, connects again and logs in as s1; the       *)
(* teacher (w3) allows the toilet.                                         *)
(* Rooms A and B are open, C is closed, Z does not exist.                  *)
(***************************************************************************)
Devices == {"w1", "w2"}
MsgRooms == {NoRoom, "A", "B"}

Next ==
  \/ \E r \in RoomKeys : Join("w1", r)
  \/ Join("w2", "A")
  \/ \E w \in Devices : Leave(w)
  \/ Close("w2")
  \/ Connection(<<"w2">>)
  \/ InitProfile("w2", [type |-> "initProfile", userId |-> "s1"])
  \/ \E r \in MsgRooms : Ready("w1", r)
  \/ \E r \in MsgRooms : Withdraw("w1", r)
  \/ Important("w1", NoRoom)
  \/ Toilet("w1", NoRoom)
  \/ ToiletAllow("w3", "A", "s1")
  \/ \E r \in MsgRooms : ToiletBack("w1", r)

Spec == Init /\ [][Next]_vars

(***************************************************************************)
(* SpecReady: the raised hands.  s1 raises and withdraws the hand from the *)
(* device w1, with and without a room id, changes rooms, asks for the      *)
(* toilet, calls himself and disconnects; the teacher acknowledges.        *)
(***************************************************************************)
NextReady ==
  \/ \E r \in RoomKeys : Join("w1", r)
  \/ Join("w2", "A")
  \/ Leave("w1")
  \/ \E w \in Devices : Close(w)
  \/ \E r \in MsgRooms : Ready("w1", r)
  \/ \E r \in MsgRooms : Withdraw("w1", r)
  \/ Toilet("w1", NoRoom)
  \/ SelfCall("w1", NoRoom)
  \/ Ack("w3", "A", "s1")

SpecReady == Init /\ [][NextReady]_vars

(***************************************************************************)
(* SpecJoin: joining and leaving only.  Every kind of user joins every     *)
(* room id: s1 (class 7a), s2 (class 7b), s3 (no class), the teacher and   *)
(* the admin.                                                              *)
(***************************************************************************)
Joiners == {"w1", "w3", "w4", "w5", "w6"}

NextJoin ==
  \/ \E w \in Joiners, r \in RoomKeys : Join(w, r)
  \/ \E w \in Joiners : Leave(w)

SpecJoin == Init /\ [][NextJoin]_vars

(***************************************************************************)
(* SpecPoll: the teacher installs polls in room A, the students s1 and s2  *)
(* vote with every selection of up to MaxSel option ids.                   *)
(***************************************************************************)
VoteIds == {"opt-0", "opt-1", "bogus"}
Selections == UNION {[1 .. n -> VoteIds] : n \in 0 .. MaxSel}
Questions == {"Q", " Q ", " "}
OptionLists == {<<"x", "y">>, <<"x", " ", "y">>, <<" x ", "y", "z">>, <<"x", "">>}

NextPoll ==
  \/ \E q \in Questions, o \in OptionLists, m \in BOOLEAN : PollCreate("w3", "A", q, o, m)
  \/ \E w \in {"w1", "w4"}, sel \in Selections : PollVote(w, "A", sel)

SpecPoll == Init /\ [][NextPoll]_vars

(***************************************************************************)
(* SpecStats: the counters.  s1 raises and withdraws the hand in room A,   *)
(* calls himself, goes to the toilet; the teacher acknowledges, rates and  *)
(* deletes log entries; the clock advances over midnight.                  *)
(***************************************************************************)
ClockSteps == {5000}

NextStats ==
  \/ Ready("w1", "A")
  \/ Withdraw("w1", "A")
  \/ SelfCall("w1", "A")
  \/ Ack("w3", "A", "s1")
  \/ Rate("w3", "A", "s1", "+")
  \/ \E id \in 1 .. MaxIds : LogDelete("w3", "A", id)
  \/ Toilet("w1", "A")
  \/ ToiletAllow("w3", "A", "s1")
  \/ ToiletBack("w1", "A")
  \/ \E ms \in ClockSteps : Advance(ms)

SpecStats == Init /\ [][NextStats]_vars

(***************************************************************************)
(* SpecLogView: the log views.  logs.json holds a log of room A written by *)
(* an earlier run, with entries of every action; a student with a class    *)
(* (w1), one without (w5), the teacher and the admin join and leave room A;*)
(* the teacher acknowledges, rates and deletes entries.                    *)
(***************************************************************************)
LogActions == {"signal", "withdraw", "called", "rating"}

\* the k-th entry of a stored log
StoredEntry(k, u, action) ==
  [id |-> 100 + k, ts |-> T0, userId |-> u, action |-> action,
   rating |-> IF action = "rating" THEN "+" ELSE "", selfCall |-> FALSE]

LogSamples ==
  UNION {{[k \in 1 .. n |-> StoredEntry(k, f[k][1], f[k][2])] :
            f \in [1 .. n -> {"s1", "s3"} \X LogActions]} : n \in 0 .. MaxLog}

InitLogView ==
  /\ users = InitUsers
  /\ rooms = InitRooms
  /\ stats = [u \in Users |-> [sub \in Subjects |-> ZeroStats]]
  /\ daily = [u \in Users |-> [sub \in Subjects |-> [d \in Days |-> ZeroCounter]]]
  /\ logs \in {[r \in RoomKeys |-> IF r = "A" THEN l ELSE <<>>] : l \in LogSamples}
  /\ userSockets = [u \in UserKeys |-> {w \in Socks : InitSockUser[w] = u}]
  /\ sockUser = InitSockUser
  /\ sockRole = InitSockRole
  /\ sockRoom = [w \in Socks |-> NoRoom]
  /\ sockOpen = InitSockOpen
  /\ roomMembers = [r \in RoomKeys |-> {}]
  /\ readyMap = <<>>
  /\ roomCounters = [r \in RoomKeys |-> [u \in UserKeys |-> ZeroCounter]]
  /\ toiletMap = [r \in RoomKeys |-> [u \in UserKeys |-> NoToilet]]
  /\ importantMap = [r \in RoomKeys |-> {}]
  /\ pollsMap = [r \in RoomKeys |-> NoPoll]
  /\ questionsMap = [r \in RoomKeys |-> <<>>]
  /\ thoughtsMap = <<>>
  /\ pollTemplates = [u \in UserKeys |-> <<>>]
  /\ homework = [k \in HwKeys |-> NoHomework]
  /\ classes = Classes
  /\ subjects = {"Math"}
  /\ uploadsMap = <<>>
  /\ nextId = 1
  /\ now = T0

Viewers == {"w1", "w3", "w5", "w6"}

NextLogView ==
  \/ \E w \in Viewers : Join(w, "A")
  \/ \E w \in Viewers : Leave(w)
  \/ Ack("w3", "A", "s1")
  \/ \E u \in {"s1", "s3"} : Rate("w3", "A", u, "+")
  \/ \E k \in 1 .. MaxLog : LogDelete("w3", "A", 100 + k)

SpecLogView == InitLogView /\ [][NextLogView]_vars

(***************************************************************************)
(* SpecRoles: who may do what.  The students s1 (class 7a), s2 (class 7b)  *)
(* and s3 (no class), the teacher and the admin raise the hand, call       *)
(* themselves, rate s1 and switch the self-call of room B.                 *)
(***************************************************************************)
NextRoles ==
  \/ \E w \in Joiners, r \in {"A", "B"} : Ready(w, r)
  \/ \E w \in Joiners, r \in {"A", "B"} : SelfCall(w, r)
  \/ \E w \in Joiners : Rate(w, "A", "s1", "+")
  \/ \E w \in Joiners, allow \in BOOLEAN : ToggleSelfCall(w, "B", allow)

SpecRoles == Init /\ [][NextRoles]_vars


(***************************************************************************)
(* SpecDrop: every message type, sent by the student s1 (w1) and on a      *)
(* socket that is connected but has sent no initProfile (w2), which also   *)
(* disconnects and connects again; the teacher (w3) joins, starts a        *)
(* collection of thoughts and acknowledges.                                *)
(***************************************************************************)
InitDrop ==
  /\ users = InitUsers
  /\ rooms = InitRooms
  /\ stats = [u \in Users |-> [sub \in Subjects |-> ZeroStats]]
  /\ daily = [u \in Users |-> [sub \in Subjects |-> [d \in Days |-> ZeroCounter]]]
  /\ logs = [r \in RoomKeys |-> <<>>]
  /\ userSockets = [u \in UserKeys |->
                      {w \in Socks \ {"w2"} : InitSockUser[w] = u}]
  /\ sockUser = [InitSockUser EXCEPT !["w2"] = NoUser]
  /\ sockRole = [InitSockRole EXCEPT !["w2"] = NoRole]
  /\ sockRoom = [w \in Socks |-> NoRoom]
  /\ sockOpen = InitSockOpen
  /\ roomMembers = [r \in RoomKeys |-> {}]
  /\ readyMap = <<>>
  /\ roomCounters = [r \in RoomKeys |-> [u \in UserKeys |-> ZeroCounter]]
  /\ toiletMap = [r \in RoomKeys |-> [u \in UserKeys |-> NoToilet]]
  /\ importantMap = [r \in RoomKeys |-> {}]
  /\ pollsMap = [r \in RoomKeys |-> NoPoll]
  /\ questionsMap = [r \in RoomKeys |-> <<>>]
  /\ thoughtsMap = <<>>
  /\ pollTemplates = [u \in UserKeys |-> <<>>]
  /\ homework = [k \in HwKeys |-> NoHomework]
  /\ classes = Classes
  /\ subjects = {"Math"}
  /\ uploadsMap = <<>>
  /\ nextId = 1
  /\ now = T0

StaffOnly ==
  {"roomCreate", "roomClose", "toggleSelfCall", "importantClear",
   "toiletAllow", "pollCreate", "pollTemplateCreate", "pollTemplateActivate",
   "thoughtStart", "thoughtEnd", "ack", "rate", "logDelete"}

MessageTypes ==
  StaffOnly \cup
    {"join", "leave", "withdraw", "ready", "important", "importantWithdraw",
     "questionSubmit", "pollVote", "homeworkSet", "thoughtSubmit", "toilet",
     "toiletBack", "selfCall", "createClass", "createSubject", "addTeaching",
     "pollTemplateList", "homeworkListRequest", "homeworkUpload",
     "roomListRequest", "unknown"}

\* a message of the given type with every field of the type filled in,
\* except for the data of the uploaded file
SampleMessage(type, roomId) ==
  [type |-> type, roomId |-> roomId, userId |-> "s1", rating |-> "+",
   entryId |-> 1, allow |-> FALSE, text |-> "Yes", question |-> "Q",
   options |-> IF type = "pollVote" THEN <<"opt-0">> ELSE <<"x", "y">>,
   multiple |-> FALSE, templateId |-> 1, className |-> "7a",
   subject |-> "Math", file |-> [name |-> "my file.txt", data |-> ""]]

Messages == {SampleMessage(type, r) : type \in MessageTypes, r \in {"A", NoRoom}}

\* who sends what: the socket without a user everything, s1 every type for
\* room A, the teacher what opens room A to the student's
\* messages, the admin (w6) a subject without a name and a message
\* without a type
Traffic ==
  ({"w2"} \X Messages)
    \cup ({"w1"} \X {SampleMessage(type, "A") : type \in MessageTypes})
    \cup ({"w3"} \X {SampleMessage(type, "A") :
                       type \in {"join", "thoughtStart", "ack"}})
    \cup ({"w6"} \X {[type |-> "createSubject"], [roomId |-> "A"]})

NextDrop ==
  \/ \E p \in Traffic : Message(p[1], p[2])
  \/ Close("w2")
  \/ Connection(<<"w2">>)

SpecDrop == InitDrop /\ [][NextDrop]_vars

(***************************************************************************)
(* SpecQuestions: the question queue.  The student s1, the teacher and the *)
(* admin join and leave the rooms A and B; s1 and the teacher submit       *)
(* questions, with and without a room id and text.                         *)
(***************************************************************************)
QuestionTexts == {"Q", " Q ", " "}

NextQuestions ==
  \/ \E w \in {"w1", "w3", "w6"}, r \in {"A", "B"} : Join(w, r)
  \/ \E w \in {"w1", "w3", "w6"} : Leave(w)
  \/ \E w \in {"w1", "w3"}, r \in {"A", NoRoom}, txt \in QuestionTexts :
       QuestionSubmit(w, r, txt)
  \/ \E w \in {"w1", "w3"} : HomeworkUpload(w, "A", "my file.txt", "QQ==")
  \/ HomeworkListRequest("w1")
  \/ RoomListRequest("w1")
  \/ \E w \in {"w3", "w6"} : CreateClass(w, " 7c ")
  \/ \E name \in {"Art", " "} : CreateSubject("w6", name)

SpecQuestions == Init /\ [][NextQuestions]_vars

(***************************************************************************)
(* SpecTemplates: polls from messages and from templates.  The file of the *)
(* poll templates is empty or holds a template the teacher saved in an     *)
(* earlier run; the teacher saves templates, lists and activates them,     *)
(* creates polls in room A and adds a teaching; the student s1 votes; a    *)
(* new teacher registers on the socket w5.                                 *)
(***************************************************************************)
StoredTemplate ==
  [id |-> 101, question |-> "Stored", options |-> <<"x", "y">>,
   multiple |-> TRUE]

InitTemplates ==
  /\ users = InitUsers
  /\ rooms = InitRooms
  /\ stats = [u \in Users |-> [sub \in Subjects |-> ZeroStats]]
  /\ daily = [u \in Users |-> [sub \in Subjects |-> [d \in Days |-> ZeroCounter]]]
  /\ logs = [r \in RoomKeys |-> <<>>]
  /\ userSockets = [u \in UserKeys |-> {w \in Socks : InitSockUser[w] = u}]
  /\ sockUser = InitSockUser
  /\ sockRole = InitSockRole
  /\ sockRoom = [w \in Socks |-> NoRoom]
  /\ sockOpen = InitSockOpen
  /\ roomMembers = [r \in RoomKeys |-> {}]
  /\ readyMap = <<>>
  /\ roomCounters = [r \in RoomKeys |-> [u \in UserKeys |-> ZeroCounter]]
  /\ toiletMap = [r \in RoomKeys |-> [u \in UserKeys |-> NoToilet]]
  /\ importantMap = [r \in RoomKeys |-> {}]
  /\ pollsMap = [r \in RoomKeys |-> NoPoll]
  /\ questionsMap = [r \in RoomKeys |-> <<>>]
  /\ thoughtsMap = <<>>
  /\ pollTemplates \in
       {[u \in UserKeys |-> IF u = "t1" THEN l ELSE <<>>] :
          l \in {<<>>, <<StoredTemplate>>}}
  /\ homework = [k \in HwKeys |-> NoHomework]
  /\ classes = Classes
  /\ subjects = {"Math"}
  /\ uploadsMap = <<>>
  /\ nextId = 1
  /\ now = T0

TemplateIds == {101} \cup (1 .. MaxIds)

NextTemplates ==
  \/ \E q \in Questions, o \in OptionLists :
       PollTemplateCreate("w3", q, o, FALSE)
  \/ \E id \in TemplateIds : PollTemplateActivate("w3", "A", id)
  \/ \E q \in Questions, o \in OptionLists : PollCreate("w3", "A", q, o, FALSE)
  \/ \E sel \in Selections : PollVote("w1", "A", sel)
  \/ PollTemplateList("w3")
  \/ InitProfile("w5", [type |-> "initProfile", role |-> "teacher",
                         salutation |-> "Frau", lastName |-> "New",
                         password |-> "pw"])
  \/ \E w \in {"w1", "w3"} : AddTeaching(w, " 7c ", "Art")

SpecTemplates == InitTemplates /\ [][NextTemplates]_vars

(***************************************************************************)
(* SpecThoughts: the collection of thoughts of room A.  The student s1 and *)
(* the teacher join; the teacher starts and ends the collection; s1 and s2 *)
(* submit texts, among them the empty text, names that every JavaScript    *)
(* object inherits and names that are integer indices.                     *)
(***************************************************************************)
ThoughtTexts == {"Yes", " No ", "no", "constructor", "__proto__", " ", "2", "1"}

NextThoughts ==
  \/ \E w \in {"w1", "w3"} : Join(w, "A")
  \/ ThoughtStart("w3", "A")
  \/ \E w \in {"w1", "w4"}, txt \in ThoughtTexts : ThoughtSubmit(w, "A", txt)
  \/ ThoughtEnd("w3", "A")

SpecThoughts == Init /\ [][NextThoughts]_vars

(***************************************************************************)
(* SpecPairs: two students of class 7a, s1 (w1) and s2 (w4; the users file *)
(* has s2 in class 7a here), join room A, raise and withdraw the hand in   *)
(* the rooms A and B and set the important flag in room A.                 *)
(***************************************************************************)
InitPairs ==
  /\ users = [InitUsers EXCEPT !["s2"].className = "7a"]
  /\ rooms = InitRooms
  /\ stats = [u \in Users |-> [sub \in Subjects |-> ZeroStats]]
  /\ daily = [u \in Users |-> [sub \in Subjects |-> [d \in Days |-> ZeroCounter]]]
  /\ logs = [r \in RoomKeys |-> <<>>]
  /\ userSockets = [u \in UserKeys |-> {w \in Socks : InitSockUser[w] = u}]
  /\ sockUser = InitSockUser
  /\ sockRole = InitSockRole
  /\ sockRoom = [w \in Socks |-> NoRoom]
  /\ sockOpen = InitSockOpen
  /\ roomMembers = [r \in RoomKeys |-> {}]
  /\ readyMap = <<>>
  /\ roomCounters = [r \in RoomKeys |-> [u \in UserKeys |-> ZeroCounter]]
  /\ toiletMap = [r \in RoomKeys |-> [u \in UserKeys |-> NoToilet]]
  /\ importantMap = [r \in RoomKeys |-> {}]
  /\ pollsMap = [r \in RoomKeys |-> NoPoll]
  /\ questionsMap = [r \in RoomKeys |-> <<>>]
  /\ thoughtsMap = <<>>
  /\ pollTemplates = [u \in UserKeys |-> <<>>]
  /\ homework = [k \in HwKeys |-> NoHomework]
  /\ classes = Classes
  /\ subjects = {"Math"}
  /\ uploadsMap = <<>>
  /\ nextId = 1
  /\ now = T0

Classmates == {"w1", "w4"}

NextPairs ==
  \/ \E w \in Classmates : Join(w, "A")
  \/ \E w \in Classmates, r \in {"A", "B"} : Ready(w, r)
  \/ \E w \in Classmates, r \in {"A", "B"} : Withdraw(w, r)
  \/ \E w \in Classmates : Important(w, "A")

SpecPairs == InitPairs /\ [][NextPairs]_vars

(***************************************************************************)
(* SpecRooms: the life of a room.  The student s1 joins room A, raises the *)
(* hand, sets the important flag and asks for the toilet; the teacher      *)
(* creates a poll, starts a collection of thoughts, sets the homework of   *)
(* class 7a in Math, closes room A and creates a room for the class.       *)
(***************************************************************************)
NextRooms ==
  \/ Join("w1", "A")
  \/ Ready("w1", "A")
  \/ Important("w1", "A")
  \/ Toilet("w1", "A")
  \/ QuestionSubmit("w1", "A", "Q")
  \/ PollCreate("w3", "A", "Q", <<"x", "y">>, FALSE)
  \/ ThoughtStart("w3", "A")
  \/ HomeworkSet("w3", "7a", "Math", "p. 12")
  \/ RoomClose("w3", "A")
  \/ \E sub \in {"Math", ""} : RoomCreate("w3", sub, "7a")

SpecRooms == Init /\ [][NextRooms]_vars

(***************************************************************************)
(* SpecSignals: hands raised more than once.  The student s1 raises and    *)
(* withdraws the hand from two devices in rooms A and B, the teacher       *)
(* acknowledges, and the clock passes midnight.                            *)
(***************************************************************************)
NextSignals ==
  \/ \E w \in {"w1", "w2"}, r \in {"A", "B"} : ReadyWide(w, r)
  \/ \E w \in {"w1", "w2"}, r \in {"A", "B"} : WithdrawWide(w, r)
  \/ AckWide("w3", "A", "s1")
  \/ AdvanceWide(MaxElapsedSec * 1000)

SpecSignals == Init /\ [][NextSignals]_vars

(***************************************************************************)
(* SpecCalls: calls and their log entries.  The teacher acknowledges the   *)
(* students s1 and s3 in the rooms A and B (subject Math) and C (no        *)
(* subject), the students call themselves in room A, and the teacher and   *)
(* the admin delete log entries.                                           *)
(***************************************************************************)
NextCalls ==
  \/ \E r \in RoomIds, u \in {"s1", "s3"} : AckCalls("w3", r, u)
  \/ \E w \in {"w1", "w5"} : SelfCallCalls(w, "A")
  \/ \E w \in {"w3", "w6"}, r \in RoomIds, id \in 1 .. MaxIds :
       LogDeleteCalls(w, r, id)

SpecCalls == Init /\ [][NextCalls]_vars

(***************************************************************************)
(* SpecSockets: the connection registry.  The student s1 uses the devices  *)
(* w1 and w2, which join and leave rooms and disconnect; a client          *)
(* connects again and gets a new socket without user (w7 when the closed   *)
(* sockets are still in a set of the registry), logs in and joins; a       *)
(* device sends initProfile again: with the id of the same user, of the    *)
(* student s3 or an unknown id, with a wrong password, with the names of a *)
(* user to log in, or with the fields of a new student.                    *)
(***************************************************************************)
Profiles ==
  {[type |-> "initProfile", userId |-> "s1"],
   [type |-> "initProfile", userId |-> "s3"],
   [type |-> "initProfile", userId |-> GhostUser],
   [type |-> "initProfile", userId |-> "s3", className |-> "7a"],
   [type |-> "initProfile", userId |-> "s1", password |-> "bad"],
   [type |-> "initProfile", mode |-> "login", firstName |-> "cy",
    lastName |-> "COE"],
   [type |-> "initProfile", mode |-> "login", firstName |-> "Ann",
    lastName |-> "Arp", password |-> "bad"],
   [type |-> "initProfile", firstName |-> "Ann", lastName |-> "Arp",
    password |-> "pw"],
   [type |-> "initProfile", firstName |-> " New ", lastName |-> "Pupil",
    password |-> "pw", className |-> "7a"]}

NextSockets ==
  \/ \E r \in {"A", "B"} : Join("w1", r)
  \/ Join("w2", "A")
  \/ \E w \in Devices : Leave(w)
  \/ \E w \in Devices : Close(w)
  \/ Connection(<<"w1", "w2", "w7">>)
  \/ InitProfile("w7", [type |-> "initProfile", userId |-> "s1"])
  \/ Join("w7", "A")
  \/ Close("w7")
  \/ \E m \in Profiles : InitProfile("w1", m)
  \/ InitProfile("w2", [type |-> "initProfile", userId |-> "s1"])

SpecSockets == Init /\ [][NextSockets]_vars

(***************************************************************************)
(* Properties                                                              *)
(***************************************************************************)
ToiletActive(r, u) == toiletMap[r][u].status \in {"pending", "allowed"}

\* the step is the handling of join{roomId: r} from socket w
JoinStep(w, r) == Apply(JoinH(Cur, w, r))

\* C1: a user is in the member set of at most one room, not counting the
\* rooms where the user's toilet entry is pending or allowed.
AtMostOneRoom ==
  \A u \in UserKeys :
    Cardinality({r \in RoomKeys : u \in roomMembers[r] /\ ~ToiletActive(r, u)}) <= 1

\* C2: in every room the ready set is a subset of the member set.
ReadyWithinMembers ==
  \A r \in DOMAIN readyMap : readyMap[r] \subseteq roomMembers[r]

\* s1 raised the hand in A (the session counter shows it) and has since lost
\* the membership of A, and with it the ready flag.
ReadyGoneWithMembership ==
  /\ "A" \in DOMAIN readyMap
  /\ roomCounters["A"]["s1"].signals > 0
  /\ "s1" \notin roomMembers["A"]
  /\ "s1" \notin readyMap["A"]

\* C3: in every room the important set is a subset of the member set.
ImportantWithinMembers ==
  \A r \in RoomKeys : importantMap[r] \subseteq roomMembers[r]

\* C4: whoever has a pending or allowed toilet entry in a room is a member of
\* that room.
ToiletWithinMembers ==
  \A r \in RoomKeys, u \in UserKeys : ToiletActive(r, u) => u \in roomMembers[r]

\* C5: every option's count is the number of users whose vote names the option.
PollCountsMatchVotes ==
  \A r \in RoomKeys :
    LET poll == pollsMap[r]
    IN \A i \in DOMAIN poll.options :
         poll.options[i].count =
           Cardinality({u \in DOMAIN poll.votes :
                          \E j \in DOMAIN poll.votes[u] :
                            poll.votes[u][j] = poll.options[i].id})

\* C6: in a poll that is not multiple every vote holds exactly one option id;
\* a vote with several options records the first one only, in place of the
\* voter's earlier entry.
SingleSelectKeepsOneOption ==
  \A r \in RoomKeys :
    LET poll == pollsMap[r]
    IN (poll # NoPoll /\ ~poll.multiple) =>
         /\ \A u \in DOMAIN poll.votes : Len(poll.votes[u]) = 1
         /\ \A w \in Socks, sel \in Selections \ {<<>>} :
              LET after == PollVoteH(Cur, w, r, sel).pollsMap[r]
              IN /\ after.votes[sockUser[w]] = <<sel[1]>>
                 /\ DOMAIN after.votes = DOMAIN poll.votes \cup {sockUser[w]}

\* two students have voted in a single-select poll, one per option
SingleSelectTwoVoters ==
  LET poll == pollsMap["A"]
  IN /\ poll # NoPoll /\ ~poll.multiple
     /\ DOMAIN poll.votes = {"s1", "s2"}
     /\ poll.votes["s1"] = <<"opt-0">>
     /\ poll.votes["s2"] = <<"opt-1">>
     /\ poll.options[1].count = 1
     /\ poll.options[2].count = 1

\* the signal counters of user u for room r: cumulative, today's, session
SignalCounters(s, u, r) ==
  <<s.stats[u][SubjectOf(s.rooms[r])].signals,
    s.daily[u][SubjectOf(s.rooms[r])][Today(s)].signals,
    s.roomCounters[r][u].signals>>

\* C7: for a student whose class is the room's, an accepted ready followed by
\* a withdraw leaves the cumulative, the daily and the session signal counters
\* as they were before the ready, and the student out of the ready set.
ReadyThenWithdrawRestores ==
  \A w \in Socks, r \in RoomIds : \A m \in {NoRoom, r} :
    LET u == sockUser[w]
        raised == ReadyH(Cur, w, m)
        back == WithdrawH(raised, w, m)
    IN (/\ CanSend(w)
        /\ m = NoRoom => sockRoom[w] = r
        /\ users[u].role = "student"
        /\ users[u].className = rooms[r].className)
       => /\ u \in raised.readyMap[r]
          /\ SignalCounters(raised, u, r) # SignalCounters(Cur, u, r)
          /\ SignalCounters(back, u, r) = SignalCounters(Cur, u, r)
          /\ u \notin back.readyMap[r]

\* s1 has raised the hand in A and withdrawn it, and nobody was called or
\* rated (no id was ever drawn): not ready, all signal counters at zero
RaisedThenWithdrawn ==
  /\ nextId = 1
  /\ "A" \in DOMAIN readyMap
  /\ "s1" \notin readyMap["A"]
  /\ "s1" \in roomMembers["A"]
  /\ SignalCounters(Cur, "s1", "A") = <<0, 0, 0>>

\* C8: every cumulative, daily and session counter is >= 0.
CountersNonNegative ==
  /\ \A u \in Users, sub \in Subjects :
       /\ stats[u][sub].signals >= 0
       /\ stats[u][sub].calls >= 0
       /\ stats[u][sub].toiletSeconds >= 0
       /\ \A k \in RatingKeys : stats[u][sub].ratings[k] >= 0
       /\ \A d \in Days :
            /\ daily[u][sub][d].signals >= 0
            /\ daily[u][sub][d].calls >= 0
            /\ daily[u][sub][d].toiletSeconds >= 0
  /\ \A r \in RoomKeys, u \in UserKeys :
       /\ roomCounters[r][u].signals >= 0
       /\ roomCounters[r][u].calls >= 0
       /\ roomCounters[r][u].toiletSeconds >= 0

\* a withdraw met today's counter at zero and left it there: s1 raised the
\* hand before midnight and withdrew it after
WithdrawClampedAtZero ==
  /\ Today(Cur) = 1
  /\ stats["s1"]["Math"].signals = 0
  /\ daily["s1"]["Math"][0].signals = 1
  /\ daily["s1"]["Math"][1].signals = 0

\* C9: an accepted join for room B from a socket whose room is A keeps the
\* user in A's member set when the toilet entry in A is pending or allowed,
\* removes the user from it otherwise, clears the user's ready and important
\* flags in A and adds the user to B's member set.
JoinMigration ==
  [][\A w \in Socks, B \in RoomKeys :
       (/\ CanSend(w)
        /\ sockRoom[w] # NoRoom
        /\ sockRoom[w] # B
        /\ ~JoinRejected(Cur, w, B)
        /\ JoinStep(w, B))
       => LET u == sockUser[w]
              A == sockRoom[w]
          IN /\ ToiletActive(A, u) => roomMembers'[A] = roomMembers[A]
             /\ ~ToiletActive(A, u) => u \notin roomMembers'[A]
             /\ u \notin MapGet(readyMap', A, {})
             /\ u \notin importantMap'[A]
             /\ u \in roomMembers'[B]
             /\ sockRoom'[w] = B]_vars

\* s1 went from A to B while allowed to the toilet in A: in B with every
\* device, still a member of A
MovedOnWhileAtToilet ==
  /\ toiletMap["A"]["s1"].status = "allowed"
  /\ "s1" \in roomMembers["A"]
  /\ "s1" \in roomMembers["B"]
  /\ sockRoom["w1"] = "B"
  /\ sockRoom["w2"] # "A"

\* the spec's rule of rejection: no such room, a closed room, or a student
\* whose class is not the room's (an empty class included)
JoinMustBeRejected(w, r) ==
  \/ r \notin DOMAIN rooms
  \/ ~rooms[r].active
  \/ /\ users[sockUser[w]].role = "student"
     /\ users[sockUser[w]].className # rooms[r].className

\* C10: a join that must be rejected changes nothing and sends nothing.
RejectedJoinIsNoOp ==
  [][\A w \in Socks, r \in RoomKeys :
       (CanSend(w) /\ JoinMustBeRejected(w, r) /\ JoinStep(w, r))
       => (UNCHANGED vars /\ JoinH(Cur, w, r).sent = {})]_vars

\* the spec's rule for a user u who leaves room r: the membership stays while
\* the toilet entry is pending or allowed, otherwise membership and flags go
LeaveRule(after, r, u) ==
  IF ToiletActive(r, u)
  THEN after.roomMembers[r] = roomMembers[r]
  ELSE /\ u \notin after.roomMembers[r]
       /\ u \notin MapGet(after.readyMap, r, {})
       /\ u \notin after.importantMap[r]

\* C11: an explicit leave and a socket close follow one rule: membership is
\* preserved while the user's toilet entry in the socket's room is pending or
\* allowed; otherwise membership, ready flag and important flag are removed.
LeaveFollowsOneRule ==
  \A w \in Socks :
    (CanSend(w) /\ sockRoom[w] # NoRoom) =>
      /\ LeaveRule(LeaveH(Cur, w), sockRoom[w], sockUser[w])
      /\ LeaveRule(CloseH(Cur, w), sockRoom[w], sockUser[w])

\* C12: the toilet entry of every (room, user) only moves none -> pending ->
\* allowed -> none (a pending request may also be taken back).
ToiletWorkflow ==
  [][\A r \in RoomKeys, u \in UserKeys :
       toiletMap'[r][u] # toiletMap[r][u] =>
         <<toiletMap[r][u].status, toiletMap'[r][u].status>> \in
           {<<"none", "pending">>, <<"pending", "allowed">>,
            <<"allowed", "none">>, <<"pending", "none">>}]_vars

\* elapsed milliseconds around the ties of the rounding
ElapsedSamples == {0, 4999, 5000, 14999, 95000}

\* ms rounded to the nearest multiple of 10 seconds, ties up
NearestTenSeconds(ms) == 10 * ((ms + 5000) \div 10000)

\* the toilet seconds of user u for room r: cumulative, today's, session
ToiletCounters(s, u, r) ==
  <<s.stats[u][SubjectOf(s.rooms[r])].toiletSeconds,
    s.daily[u][SubjectOf(s.rooms[r])][Today(s)].toiletSeconds,
    s.roomCounters[r][u].toiletSeconds>>

\* C13: toiletBack adds the same duration d to the cumulative, today's and the
\* session toiletSeconds, d being the time since the recorded start rounded to
\* the nearest 10 seconds, ties up; d is 0 when no start was recorded.
ToiletBackAddsDuration ==
  \A w \in Joiners, r \in RoomIds, e \in ElapsedSamples :
    LET u == sockUser[w]
        later == AdvanceH(Cur, e)
        back == ToiletBackH(later, w, r)
        entry == toiletMap[r][u]
        d == IF entry.status = "allowed"
             THEN NearestTenSeconds(later.now - entry.start) ELSE 0
    IN CanSend(w) =>
         /\ d >= 0
         /\ ToiletCounters(back, u, r) =
              [i \in 1 .. 3 |-> ToiletCounters(later, u, r)[i] + d]
         /\ back.toiletMap[r][u] = NoToilet

\* s1 came back 5000 ms after the permission, over midnight: the tie counted
\* as 10 seconds in all three counters
ToiletTieRoundedUp ==
  /\ toiletMap["A"]["s1"] = NoToilet
  /\ Today(Cur) = 1
  /\ ToiletCounters(Cur, "s1", "A") = <<10, 10, 10>>
  /\ daily["s1"]["Math"][0].toiletSeconds = 0

\* the calls of user u for room r: cumulative, today's, session
CallCounters(s, u, r) ==
  <<s.stats[u][SubjectOf(s.rooms[r])].calls,
    s.daily[u][SubjectOf(s.rooms[r])][Today(s)].calls,
    s.roomCounters[r][u].calls>>

\* every signals counter of the state: cumulative, daily, session
AllSignals(s) ==
  <<[u \in Users, sub \in Subjects |-> s.stats[u][sub].signals],
    [u \in Users, sub \in Subjects, d \in Days |-> s.daily[u][sub][d].signals],
    [r \in RoomKeys, u \in UserKeys |-> s.roomCounters[r][u].signals]>>

\* log is base with one more entry at the end, of the given action and target
OneEntryAppended(log, base, action, target) ==
  /\ Len(log) = Len(base) + 1
  /\ SubSeq(log, 1, Len(base)) = base
  /\ log[Len(log)].action = action
  /\ log[Len(log)].userId = target
  /\ \A i \in 1 .. Len(base) : base[i].id # log[Len(log)].id

\* C14: an ack{roomId R, userId S} from the teacher empties R's ready set,
\* raises S's cumulative, daily and session calls by one each, appends one
\* log entry "called" for S and changes no signals counter.
AckEffect ==
  \A R \in RoomIds, S \in Users :
    LET after == AckH(Cur, "w3", R, S)
    IN CanSend("w3") =>
         /\ after.readyMap[R] = {}
         /\ CallCounters(after, S, R) =
              [i \in 1 .. 3 |-> CallCounters(Cur, S, R)[i] + 1]
         /\ OneEntryAppended(after.logs[R], logs[R], "called", S)
         /\ ~after.logs[R][Len(after.logs[R])].selfCall
         /\ AllSignals(after) = AllSignals(Cur)

\* the teacher has acknowledged s1, who had raised the hand in A
AckedRaisedHand ==
  /\ "A" \in DOMAIN readyMap
  /\ readyMap["A"] = {}
  /\ SignalCounters(Cur, "s1", "A") = <<1, 1, 1>>
  /\ CallCounters(Cur, "s1", "A") = <<1, 1, 1>>
  /\ Len(logs["A"]) = 1
  /\ logs["A"][1].action = "called"
  /\ ~logs["A"][1].selfCall

\* every rating histogram of the state
AllRatings(s) == [u \in Users, sub \in Subjects |-> s.stats[u][sub].ratings]

\* C15: logDelete by a teacher or admin of a log entry "called" removes the
\* entry, lowers the target's cumulative, today's and session calls by one
\* each, not below zero, and changes no signals counter and no rating bucket.
LogDeleteCalledEffect ==
  \A w \in {"w3", "w6"}, r \in RoomIds :
    \A i \in DOMAIN logs[r] :
      LET e == logs[r][i]
          after == LogDeleteH(Cur, w, r, e.id)
      IN (CanSend(w) /\ e.action = "called") =>
           /\ after.logs[r] = SelectSeq(logs[r], LAMBDA x : x.id # e.id)
           /\ Len(after.logs[r]) = Len(logs[r]) - 1
           /\ CallCounters(after, e.userId, r) =
                [k \in 1 .. 3 |-> Max(0, CallCounters(Cur, e.userId, r)[k] - 1)]
           /\ AllSignals(after) = AllSignals(Cur)
           /\ AllRatings(after) = AllRatings(Cur)

\* the call of s1 was logged before midnight and deleted after it: today's
\* calls stayed at zero, yesterday's call is still counted
CallDeletedNextDay ==
  /\ Today(Cur) = 1
  /\ logs["A"] = <<>>
  /\ CallCounters(Cur, "s1", "A") = <<0, 0, 0>>
  /\ daily["s1"]["Math"][0].calls = 1

\* the entries of room r's log that are neither signal nor withdraw
WithoutSignals(r) ==
  SelectSeq(logs[r], LAMBDA e : e.action \notin {"signal", "withdraw"})

\* C16: a log view pushed to a student socket holds no entry "signal" or
\* "withdraw", no entry of another user and no rating value; a log view
\* pushed to a teacher socket holds all entries but "signal" and "withdraw".
LogViewsFiltered ==
  \A r \in RoomKeys : \A m \in sendLogUpdates(Cur, r).sent :
    /\ sockRole[m.to] = "student" =>
         \A i \in DOMAIN m.entries :
           /\ m.entries[i].action \notin {"signal", "withdraw"}
           /\ m.entries[i].userId = sockUser[m.to]
           /\ m.entries[i].rating = ""
    /\ sockRole[m.to] = "teacher" => m.entries = WithoutSignals(r)

\* s1 and the teacher are in room A, whose log holds a rating of s1: the
\* student's view is empty, the teacher's view shows the entry
RatingHiddenFromStudent ==
  /\ sockRoom["w1"] = "A"
  /\ sockRoom["w3"] = "A"
  /\ Len(logs["A"]) = 1
  /\ logs["A"][1].action = "rating"
  /\ logs["A"][1].userId = "s1"
  /\ LogView(Cur, "A", "w1") = <<>>
  /\ LogView(Cur, "A", "w3") = logs["A"]

\* C17: an admin socket in a room is served like a teacher socket: the log
\* view with the entries of all users and their ratings, and the aggregate
\* stats view.
AdminViewsLikeTeacher ==
  \A r \in RoomIds, w \in Socks :
    (sockOpen[w] /\ sockRole[w] = "admin" /\ sockRoom[w] = r) =>
      /\ [Msg(w, "log", r) EXCEPT !.entries = WithoutSignals(r)]
           \in sendLogUpdates(Cur, r).sent
      /\ Msg(w, "stats", r) \in sendStats(Cur, r).sent

\* the state without the frames sent
StateOf(s) == [s EXCEPT !.sent = {}]

\* C18: a ready from a teacher, an admin or a student of another class than
\* the room's changes nothing; no teacher or admin is in a ready set.
ReadyRejectedForStaff ==
  /\ \A r \in DOMAIN readyMap : \A u \in readyMap[r] :
       users[u].role \notin {"teacher", "admin"}
  /\ \A w \in Socks, r \in RoomIds :
       (/\ CanSend(w)
        /\ \/ users[sockUser[w]].role \in {"teacher", "admin"}
           \/ users[sockUser[w]].className # rooms[r].className)
       => StateOf(ReadyH(Cur, w, r)) = Cur

\* C19: a rate with a valid rating for an existing room is accepted from the
\* teacher and the admin and from nobody else; accepted, it raises one bucket
\* of the target's histogram by one, appends one log entry "rating" and
\* changes no session counter.
RateByTeacherOrAdmin ==
  \A w \in Socks, r \in RoomIds, S \in Users, k \in RatingKeys :
    LET after == RateH(Cur, w, r, S, k)
        sub == SubjectOf(rooms[r])
    IN CanSend(w) =>
         IF sockRole[w] \in {"teacher", "admin"}
         THEN /\ AllRatings(after) =
                   [AllRatings(Cur) EXCEPT ![S, sub][k] = @ + 1]
              /\ OneEntryAppended(after.logs[r], logs[r], "rating", S)
              /\ after.roomCounters = roomCounters
         ELSE StateOf(after) = Cur

\* C20: selfCall takes effect only in an existing room with allowSelfCall set
\* and for a student of the room's class; then the sender leaves the ready
\* set (nobody else does), the sender's cumulative, daily and session calls
\* rise by one each and one log entry "called" with selfCall is appended.
\* Otherwise nothing changes.
SelfCallOnlyForClassStudents ==
  \A w \in Socks, r \in RoomKeys :
    LET u == sockUser[w]
        after == SelfCallH(Cur, w, r)
    IN CanSend(w) =>
         IF /\ r \in DOMAIN rooms
            /\ rooms[r].allowSelfCall
            /\ users[u].role = "student"
            /\ users[u].className = rooms[r].className
         THEN /\ MapGet(after.readyMap, r, {}) = MapGet(readyMap, r, {}) \ {u}
              /\ CallCounters(after, u, r) =
                   [i \in 1 .. 3 |-> CallCounters(Cur, u, r)[i] + 1]
              /\ OneEntryAppended(after.logs[r], logs[r], "called", u)
              /\ after.logs[r][Len(after.logs[r])].selfCall
         ELSE StateOf(after) = Cur

\* C21: on an open socket, a message on a socket without a user, and a
\* command for teachers and admins that a student socket sends, changes no
\* state and sends nothing to anybody.
SilentDrop ==
  \A w \in Socks, m \in Messages :
    (/\ sockOpen[w]
     /\ \/ sockUser[w] = NoUser
        \/ sockRole[w] = "student" /\ m.type \in StaffOnly)
    => Handle(Cur, w, m) = Cur

\* s1 is in room A with the hand raised, the important flag set and a toilet
\* request pending, a collection of thoughts runs and a call of s1 is
\* logged: each of the commands a student's socket may not send, and each
\* message on the socket without a user, would show
DropsWouldShow ==
  /\ sockUser["w2"] = NoUser /\ sockOpen["w2"]
  /\ sockRoom["w1"] = "A" /\ sockRoom["w3"] = "A"
  /\ "A" \in DOMAIN readyMap /\ "s1" \in readyMap["A"]
  /\ "s1" \in importantMap["A"]
  /\ toiletMap["A"]["s1"].status = "pending"
  /\ "A" \in DOMAIN thoughtsMap /\ thoughtsMap["A"].active
  /\ Len(logs["A"]) = 1 /\ logs["A"][1].id = 1

\* C22: no message sends a question or a questionList frame to a student
\* socket; an accepted questionSubmit appends one entry to the end of the
\* room's queue and reaches exactly the open teacher and admin sockets whose
\* room is that room.
QuestionsForStaffOnly ==
  /\ \A w \in Socks, m \in Messages :
       CanSend(w) =>
         \A f \in Handle(Cur, w, m).sent :
           f.type \in {"question", "questionList"} => sockRole[f.to] # "student"
  /\ \A w \in Socks, mRoom \in RoomKeys \cup {NoRoom}, txt \in QuestionTexts :
       LET after == QuestionSubmitH(Cur, w, mRoom, txt)
           r == IF mRoom # NoRoom THEN mRoom ELSE sockRoom[w]
       IN (CanSend(w) /\ r \in DOMAIN rooms /\ Trim(txt) # "") =>
            /\ Len(after.questionsMap[r]) = Len(questionsMap[r]) + 1
            /\ SubSeq(after.questionsMap[r], 1, Len(questionsMap[r])) =
                 questionsMap[r]
            /\ after.questionsMap[r][Len(after.questionsMap[r])].text = Trim(txt)
            /\ \A q \in RoomKeys \ {r} : after.questionsMap[q] = questionsMap[q]
            /\ after.sent =
                 {Msg(x, "question", r) :
                    x \in {y \in Socks : /\ sockOpen[y]
                                         /\ sockRoom[y] = r
                                         /\ sockRole[y] \in {"teacher", "admin"}}}

\* s1, the teacher and the admin are in room A, whose queue holds two
\* questions
TwoQuestionsQueued ==
  /\ sockRoom["w1"] = "A" /\ sockRoom["w3"] = "A" /\ sockRoom["w6"] = "A"
  /\ Len(questionsMap["A"]) = 2
  /\ questionsMap["A"][1].id # questionsMap["A"][2].id

\* the poll is fresh: nobody has voted, every count is 0
FreshPoll(poll) ==
  /\ poll.votes = <<>>
  /\ \A i \in DOMAIN poll.options : poll.options[i].count = 0

\* C23: every current poll has a question that is not empty and at least two
\* options, none with an empty text; a poll installed by pollCreate or by
\* pollTemplateActivate has no votes and all counts 0, whatever the votes of
\* the poll it replaces.
PollsWellFormed ==
  /\ \A r \in DOMAIN pollsMap :
       pollsMap[r] # NoPoll =>
         /\ pollsMap[r].question # ""
         /\ Len(pollsMap[r].options) >= 2
         /\ \A i \in DOMAIN pollsMap[r].options : pollsMap[r].options[i].text # ""
  /\ \A w \in {"w3", "w6"}, r \in RoomIds :
       /\ \A q \in Questions, o \in OptionLists, m \in BOOLEAN :
            LET after == PollCreateH(Cur, w, r, q, o, m)
            IN after.nextId # nextId =>
                 /\ FreshPoll(after.pollsMap[r])
                 /\ after.pollsMap[r].id \notin {pollsMap[x].id : x \in DOMAIN pollsMap}
                 /\ after.pollsMap[r].question = Trim(q)
       /\ \A id \in TemplateIds :
            LET after == PollTemplateActivateH(Cur, w, r, id)
            IN after.nextId # nextId =>
                 /\ FreshPoll(after.pollsMap[r])
                 /\ after.pollsMap[r].id \notin {pollsMap[x].id : x \in DOMAIN pollsMap}

\* the teacher has activated the stored template in room A for the second
\* time: the poll is the second one and has no votes
TemplateActivatedAgain ==
  /\ pollTemplates["t1"] = <<StoredTemplate>>
  /\ pollsMap["A"].id = 2
  /\ pollsMap["A"].question = "Stored"
  /\ FreshPoll(pollsMap["A"])

\* C24: a thoughtSubmit changes nothing unless the room's collection is
\* active and the text is not empty, and then it appends the text; a
\* thoughtStart leaves an active collection without entries, whatever was
\* submitted before.
ThoughtsOnlyWhileActive ==
  /\ \A w \in Socks, r \in RoomKeys, txt \in ThoughtTexts :
       LET after == ThoughtSubmitH(Cur, w, r, txt)
           active == r \in DOMAIN thoughtsMap /\ thoughtsMap[r].active
       IN CanSend(w) =>
            IF active /\ Trim(txt) # ""
            THEN after.thoughtsMap[r].entries =
                   Append(thoughtsMap[r].entries, Lower(Trim(txt)))
            ELSE after = Cur
  /\ \A w \in {"w3", "w6"}, r \in RoomKeys :
       CanSend(w) =>
         ThoughtStartH(Cur, w, r).thoughtsMap[r] =
           [active |-> TRUE, entries |-> <<>>]

\* the collection of room A is active and holds two thoughts
ThoughtsCollected ==
  /\ "A" \in DOMAIN thoughtsMap
  /\ thoughtsMap["A"].active
  /\ thoughtsMap["A"].entries = <<"yes", "no">>

\* the number of entries that are the text txt
Submissions(entries, txt) ==
  Cardinality({i \in DOMAIN entries : entries[i] = txt})

\* C25: thoughtEnd sends every client of the room one result list with one
\* item for each distinct text submitted, the item's count being the number
\* of submissions of the text, in the order of non-increasing counts; the
\* collection is then inactive and empty.
ThoughtEndTallies ==
  \A w \in {"w3", "w6"}, r \in DOMAIN thoughtsMap :
    LET after == ThoughtEndH(Cur, w, r)
        entries == thoughtsMap[r].entries
        texts == {entries[i] : i \in DOMAIN entries}
    IN CanSend(w) =>
         /\ after.thoughtsMap[r] = NoThoughts
         /\ {f.to : f \in after.sent} = Clients(Cur, r)
         /\ \A f \in after.sent :
              /\ f.type = "thoughtResults"
              /\ Len(f.results) = Cardinality(texts)
              /\ {f.results[i].text : i \in DOMAIN f.results} = texts
              /\ \A i \in DOMAIN f.results :
                   f.results[i].count =
                     Number(Submissions(entries, f.results[i].text))
              /\ \A i, j \in DOMAIN f.results :
                   i < j => f.results[i].count.num >= f.results[j].count.num

\* what one user sends: up to two messages, each ready or withdraw
Scripts == UNION {[1 .. n -> {"ready", "withdraw"}] : n \in 0 .. 2}

\* the server handles the message kind{roomId: r} of the socket w
Handled(s, w, r, kind) ==
  IF kind = "ready" THEN ReadyH(s, w, r) ELSE WithdrawH(s, w, r)

\* the states the interleavings of the script qa of socket a with the script
\* qb of socket b end in, each message handled as a whole
RECURSIVE Outcomes(_, _, _, _, _, _)
Outcomes(s, r, a, qa, b, qb) ==
  IF qa = <<>> /\ qb = <<>> THEN {s}
  ELSE (IF qa = <<>> THEN {}
        ELSE Outcomes(Handled(s, a, r, Head(qa)), r, a, Tail(qa), b, qb))
       \cup
       (IF qb = <<>> THEN {}
        ELSE Outcomes(Handled(s, b, r, Head(qb)), r, a, qa, b, Tail(qb)))

\* C26: for two users who are in the same room, all interleavings of the
\* ready and withdraw messages of the one with those of the other end in
\* the same ready set and the same signal counters of both.
InterleavingsAgree ==
  \A r \in RoomIds, a \in Socks, b \in Socks, qa \in Scripts, qb \in Scripts :
    (/\ CanSend(a) /\ CanSend(b)
     /\ sockUser[a] # sockUser[b]
     /\ sockRoom[a] = r /\ sockRoom[b] = r
     /\ sockUser[a] \in roomMembers[r] /\ sockUser[b] \in roomMembers[r])
    => Cardinality(
         {<<MapGet(f.readyMap, r, {}),
            SignalCounters(f, sockUser[a], r),
            SignalCounters(f, sockUser[b], r)>> :
            f \in Outcomes(Cur, r, a, qa, b, qb)}) = 1

\* the runtime state of the rooms
Runtime(s) ==
  <<s.roomMembers, s.readyMap, s.importantMap, s.toiletMap, s.pollsMap,
    s.thoughtsMap, s.questionsMap, s.roomCounters>>

\* C27: a roomClose by a teacher or an admin leaves the room in place and
\* inactive, and the members, ready set, important set, toilet entries, poll,
\* thoughts, questions and session counters of every room as they were.
RoomCloseKeepsRuntime ==
  \A w \in {"w3", "w6"}, r \in DOMAIN rooms :
    LET after == RoomCloseH(Cur, w, r)
    IN CanSend(w) =>
         /\ after.rooms = [rooms EXCEPT ![r].active = FALSE]
         /\ Runtime(after) = Runtime(Cur)

\* room A is closed and still has its member s1 with the hand raised, the
\* flag set and the toilet asked for, its poll, its question, its active
\* collection of thoughts and its session counters
ClosedRoomKeptState ==
  /\ ~rooms["A"].active
  /\ "s1" \in roomMembers["A"]
  /\ "A" \in DOMAIN readyMap /\ "s1" \in readyMap["A"]
  /\ "s1" \in importantMap["A"]
  /\ toiletMap["A"]["s1"].status = "pending"
  /\ pollsMap["A"] # NoPoll
  /\ Len(questionsMap["A"]) = 1
  /\ "A" \in DOMAIN thoughtsMap /\ thoughtsMap["A"].active
  /\ roomCounters["A"]["s1"].signals = 1

\* C28: after a roomClose the homework of the room's class and subject has
\* as previous what was current before, and no current.
RoomCloseRollsHomework ==
  \A w \in {"w3", "w6"}, r \in DOMAIN rooms :
    LET after == RoomCloseH(Cur, w, r)
        key == <<rooms[r].className, SubjectOf(rooms[r])>>
    IN (CanSend(w) /\ homework[key].current # NoText) =>
         /\ after.homework[key].previous = homework[key].current
         /\ after.homework[key].current = NoText

\* the cumulative, daily and session signals of user u for room r
SignalsOf(s, u, r) ==
  <<s.stats[u][SubjectOf(s.rooms[r])].signals,
    s.daily[u][SubjectOf(s.rooms[r])][Today(s)].signals,
    RoomCounter(s, r, u).signals>>

\* C29: an accepted ready of a user who is already in the room's ready set
\* leaves the ready set as it was and raises the user's cumulative, daily and
\* session signals by one each.
ReadyAgainCounts ==
  \A w \in Socks, r \in RoomIds :
    LET u == sockUser[w]
        after == ReadyH(Cur, w, r)
    IN (/\ CanSend(w)
        /\ ~ReadyRejected(Cur, w, r)
        /\ r \in DOMAIN readyMap
        /\ u \in readyMap[r]) =>
         /\ after.readyMap[r] = readyMap[r]
         /\ SignalsOf(after, u, r) =
              <<SignalsOf(Cur, u, r)[1] + 1, SignalsOf(Cur, u, r)[2] + 1,
                SignalsOf(Cur, u, r)[3] + 1>>

\* s1 has raised the hand in room A twice in a row on the same day
RaisedTwice ==
  /\ "A" \in DOMAIN readyMap /\ readyMap["A"] = {"s1"}
  /\ SignalsOf(Cur, "s1", "A") = <<2, 2, 2>>

\* C30: a withdraw of a user who is not in the room's ready set leaves the
\* user's cumulative, daily and session signals as they were.
WithdrawNotReadyKeepsSignals ==
  \A w \in Socks, r \in RoomIds :
    LET u == sockUser[w]
        after == WithdrawH(Cur, w, r)
    IN (/\ CanSend(w)
        /\ ~(r \in DOMAIN readyMap /\ u \in readyMap[r])) =>
         SignalsOf(after, u, r) = SignalsOf(Cur, u, r)

\* the sum of f[d] over the days d of D
RECURSIVE SumDays(_, _)
SumDays(f, D) ==
  IF D = {} THEN 0
  ELSE LET d == CHOOSE x \in D : TRUE
       IN f[d] + SumDays(f, D \ {d})

\* C31: for every user and subject the cumulative signals, calls and
\* toiletSeconds are each the sum of that counter over the daily buckets.
CumulativeIsSumOfDaily ==
  \A u \in Users, sub \in Subjects :
    /\ stats[u][sub].signals =
         SumDays([d \in Days |-> daily[u][sub][d].signals], Days)
    /\ stats[u][sub].calls =
         SumDays([d \in Days |-> daily[u][sub][d].calls], Days)
    /\ stats[u][sub].toiletSeconds =
         SumDays([d \in Days |-> daily[u][sub][d].toiletSeconds], Days)

\* the number of entries with action called and target u in a log
CalledCount(entries, u) ==
  Cardinality({i \in DOMAIN entries :
                 entries[i].action = "called" /\ entries[i].userId = u})

\* the sum of f[r] over the rooms r of R
RECURSIVE SumRooms(_, _)
SumRooms(f, R) ==
  IF R = {} THEN 0
  ELSE LET r == CHOOSE x \in R : TRUE
       IN f[r] + SumRooms(f, R \ {r})

\* C32: for every existing user u and room r the room's session calls of u
\* are the number of called entries for u in the room's log, and u's
\* cumulative calls for a subject are the number of such entries over all
\* rooms of that subject.
CallsMatchLog ==
  \A u \in DOMAIN users :
    /\ \A r \in DOMAIN rooms :
         RoomCounter(Cur, r, u).calls = CalledCount(MapGet(logs, r, <<>>), u)
    /\ \A sub \in Subjects :
         stats[u][sub].calls =
           SumRooms([r \in DOMAIN rooms |-> CalledCount(MapGet(logs, r, <<>>), u)],
                    {r \in DOMAIN rooms : SubjectOf(rooms[r]) = sub})

\* s1 was called in rooms A and B, the entry of room A was deleted again,
\* and the entry of room B is still there
CalledInTwoRoomsOneDeleted ==
  /\ nextId = 3
  /\ MapGet(logs, "A", <<>>) = <<>>
  /\ CalledCount(MapGet(logs, "B", <<>>), "s1") = 1
  /\ stats["s1"]["Math"].calls = 1
  /\ RoomCounter(Cur, "A", "s1").calls = 0
  /\ RoomCounter(Cur, "B", "s1").calls = 1

\* the users with a toilet entry in room r
ToiletUsers(tm, r) ==
  {u \in DOMAIN MapGet(tm, r, <<>>) : tm[r][u].status # "none"}

\* C33: no step adds a user to the member set, the ready set, the important
\* set or the toilet entries of an inactive room, and an inactive room stays
\* inactive.
ClosedRoomTakesNoOne ==
  [][\A r \in DOMAIN rooms :
       ~rooms[r].active =>
         /\ r \in DOMAIN rooms' /\ ~rooms'[r].active
         /\ MapGet(roomMembers', r, {}) \subseteq MapGet(roomMembers, r, {})
         /\ MapGet(readyMap', r, {}) \subseteq MapGet(readyMap, r, {})
         /\ MapGet(importantMap', r, {}) \subseteq MapGet(importantMap, r, {})
         /\ ToiletUsers(toiletMap', r) \subseteq ToiletUsers(toiletMap, r)]_vars

\* C34: the user of every open socket with a current room is a member of
\* that room, and the registry holds for every user exactly the open sockets
\* associated with the user.
SocketsConsistent ==
  /\ \A w \in Socks :
       (sockOpen[w] /\ sockUser[w] # NoUser /\ sockRoom[w] # NoRoom) =>
         sockUser[w] \in MapGet(roomMembers, sockRoom[w], {})
  /\ \A u \in UserKeys \cup DOMAIN users :
       MapGet(userSockets, u, {}) = {w \in Socks : sockOpen[w] /\ sockUser[w] = u}

====
